---- MODULE Spec2Model ----
(***************************************************************************)
(* Contract-state projection and operation-history aggregation of rgb-std  *)
(* (src/src/interface/contract.rs): the AmountChange net-delta algebra,    *)
(* the IfaceOp aggregation loop of ContractIface::operations and the       *)
(* field-resolved queries of ContractIface; the RGB20 interface family,    *)
(* wrapper and genesis builder (src/src/interface/rgb20.rs); the Ticker    *)
(* constructors (src/std/src/stl/specs.rs).                                *)
(*                                                                         *)
(* Nine specifications share the variables below:                          *)
(*   SpecChange  folds amount events through AmountChange;                 *)
(*   SpecMerge   merges amounts into an AmountChange of any value;         *)
(*   SpecOps     runs the two loops of ContractIface::operations, one      *)
(*               allocation per step;                                      *)
(*   SpecView    answers one query of a ContractIface over a store;        *)
(*   SpecRgb20   answers one query of an Rgb20 (rgb20.rs) over a store.    *)
(*   SpecShared  lets two threads query one ContractIface;                 *)
(*   SpecIface   composes Rgb20::iface(features) and wraps a view;         *)
(*   SpecIssue   drives a PrimaryIssue from construction to the genesis;   *)
(*   SpecTicker  builds a Ticker from a string.                            *)
(***************************************************************************)
EXTENDS Integers, Sequences, FiniteSets, TLC

(***************************************************************************)
(* Bounds of the model.                                                    *)
(***************************************************************************)
\* Amount wraps a u64; the model keeps the wrap-around at a narrower width.
AmountBits == 7
\* Amount events folded through one AmountChange (SpecChange).
MaxEvents == 3
\* Allocations pulled from the two iterators of operations() (SpecOps).
MaxAllocs == 2
\* Records in the state store of a contract view, global ones included
\* (SpecView).
MaxStore == 2
\* Records in the state store of an Rgb20, global ones included (SpecRgb20).
MaxRgb20 == 3
\* Records in the state store two threads query (SpecShared).
MaxShared == 1
\* Operations called on a PrimaryIssue between its construction and the
\* issue of the contract (SpecIssue).
MaxIssueOps == 2
\* Longest string handed to a Ticker constructor: one character more than a
\* Ticker holds (SpecTicker).
MaxTickerInput == 9

AmountMax == 2^AmountBits - 1
AmountModulus == AmountMax + 1

\* The amounts the environment hands in: the zero amount, the amounts of the
\* documented scenarios, and the largest amount of the domain.
Amounts == {0, 10, 40, 50, 100, AmountMax}

VARIABLES
    pc,              \* position of the running operation
    overflowChecks,  \* build profile: TRUE panics on integer overflow, FALSE wraps
    change,          \* SpecChange: the AmountChange being folded
    totalSpent,      \* SpecChange: arithmetic sum of the spent events so far
    totalReceived,   \* SpecChange: arithmetic sum of the received events so far
    nEvents,         \* SpecChange: number of events folded so far
    merges,          \* SpecMerge: the merge calls made so far, each with the
                     \* AmountChange it was applied to
    spent,           \* SpecOps: the spend candidates pulled so far, in order
    allocations,     \* SpecOps: the receive allocations pulled so far, in order
    ops,             \* SpecOps: the map from settling-transaction id to IfaceOp
    state,           \* SpecView: ContractIface.state, the state store
    schema,          \* SpecView: ContractIface.schema, its global_types
    iface,           \* SpecView: ContractIface.iface, the interface binding
    call,            \* SpecView: the query called and its arguments
    result,          \* SpecView: what the query returned
    work,            \* SpecView: the records the query filtered, decoded, folded
    debugAssertions, \* build profile: TRUE compiles debug_assert! in
    features,        \* SpecIface: the Features handed to Rgb20::iface
    composed,        \* SpecIface: the interface iface() has composed so far
    issue,           \* SpecIssue: the PrimaryIssue being built
    log              \* SpecIssue: the operations called on the PrimaryIssue

changeVars == <<change, totalSpent, totalReceived, nEvents, merges>>
opsVars == <<spent, allocations, ops>>
viewVars == <<state, schema, iface, call, result, work>>
issueVars == <<debugAssertions, features, composed, issue, log>>
vars == <<pc, overflowChecks, changeVars, opsVars, viewVars, issueVars>>

(***************************************************************************)
(* Amount arithmetic: `+` and `-` of the u64 wrapper.  An overflowing      *)
(* operation panics in a build with overflow checks and wraps otherwise.   *)
(***************************************************************************)
Ok(v) == [panic |-> FALSE, val |-> v]
Panic == [panic |-> TRUE, val |-> 0]

Add(a, b) ==
    IF a + b <= AmountMax THEN Ok(a + b)
    ELSE IF overflowChecks THEN Panic
    ELSE Ok((a + b) % AmountModulus)

Sub(a, b) ==
    IF a >= b THEN Ok(a - b)
    ELSE IF overflowChecks THEN Panic
    ELSE Ok((a - b) % AmountModulus)

(***************************************************************************)
(* enum AmountChange { Dec(Amount), Zero, Inc(Amount) }                    *)
(***************************************************************************)
Dec(n) == [tag |-> "Dec", val |-> n]
Zero == [tag |-> "Zero", val |-> 0]
Inc(n) == [tag |-> "Inc", val |-> n]
\* The value a panicking merge leaves behind: none, the thread unwinds.
Panicked == [tag |-> "Panicked", val |-> 0]

DecOf(r) == IF r.panic THEN Panicked ELSE Dec(r.val)
IncOf(r) == IF r.panic THEN Panicked ELSE Inc(r.val)

AmountChange_from_spent(st) == Dec(st)

AmountChange_from_received(st) == Inc(st)

\* Faulty variant: spending exactly what was received leaves Dec(0).
AmountChange_merge_spent_Lopsided(self, sub) ==
    CASE self.tag = "Dec" -> DecOf(Add(self.val, sub))
      [] self.tag = "Zero" -> Dec(sub)
      [] self.tag = "Inc" ->
            IF sub < self.val THEN IncOf(Sub(self.val, sub))
            ELSE DecOf(Sub(sub, self.val))

AmountChange_merge_spent(self, sub) ==
    CASE self.tag = "Dec" -> DecOf(Add(self.val, sub))
      [] self.tag = "Zero" -> Dec(sub)
      [] self.tag = "Inc" ->
            IF sub < self.val THEN IncOf(Sub(self.val, sub))
            ELSE IF sub = self.val THEN Zero
            ELSE DecOf(Sub(sub, self.val))

\* Faulty variant: receiving exactly what was spent leaves Inc(0).
AmountChange_merge_received_NoCancel(self, add) ==
    CASE self.tag = "Inc" -> IncOf(Add(self.val, add))
      [] self.tag = "Zero" -> Inc(add)
      [] self.tag = "Dec" ->
            IF add < self.val THEN DecOf(Sub(self.val, add))
            ELSE IncOf(Sub(add, self.val))

AmountChange_merge_received(self, add) ==
    CASE self.tag = "Inc" -> IncOf(Add(self.val, add))
      [] self.tag = "Zero" -> Inc(add)
      [] self.tag = "Dec" ->
            IF add < self.val THEN DecOf(Sub(self.val, add))
            ELSE IF add = self.val THEN Zero
            ELSE IncOf(Sub(add, self.val))

(***************************************************************************)
(* The second impl StateChange for AmountChange, of rgb20.rs: the arms of  *)
(* the two merges are match guards, tried in order, with a last arm that   *)
(* is unreachable!().                                                      *)
(***************************************************************************)
Unreachable == [tag |-> "Unreachable", val |-> 0]

Rgb20_AmountChange_from_spent(st) == Dec(st)

Rgb20_AmountChange_from_received(st) == Inc(st)

\* Faulty variant: the guard of the first Inc arm is not strict.
Rgb20_AmountChange_merge_spent_LooseGuard(self, sub) ==
    CASE self.tag = "Dec" -> DecOf(Add(self.val, sub))
      [] self.tag = "Zero" -> Dec(sub)
      [] self.tag = "Inc" ->
            IF self.val >= sub THEN IncOf(Sub(self.val, sub))
            ELSE IF self.val < sub THEN DecOf(Sub(sub, self.val))
            ELSE Unreachable

Rgb20_AmountChange_merge_spent(self, sub) ==
    CASE self.tag = "Dec" -> DecOf(Add(self.val, sub))
      [] self.tag = "Zero" -> Dec(sub)
      [] self.tag = "Inc" ->
            IF self.val > sub THEN IncOf(Sub(self.val, sub))
            ELSE IF self.val = sub THEN Zero
            ELSE IF self.val < sub THEN DecOf(Sub(sub, self.val))
            ELSE Unreachable

Rgb20_AmountChange_merge_received(self, add) ==
    CASE self.tag = "Inc" -> IncOf(Add(self.val, add))
      [] self.tag = "Zero" -> Inc(add)
      [] self.tag = "Dec" ->
            IF self.val > add THEN DecOf(Sub(self.val, add))
            ELSE IF self.val = add THEN Zero
            ELSE IF self.val < add THEN IncOf(Sub(add, self.val))
            ELSE Unreachable

(***************************************************************************)
(* trait StateChange.  operations() is generic over the implementation C   *)
(* its caller names.  AmountChange is the implementation for amounts; for  *)
(* the other state kinds the caller brings its own, modelled by Tally,     *)
(* which counts the units merged into it and never panics.                 *)
(***************************************************************************)
Tally(n) == [tag |-> "Tally", val |-> n]

StateChange_from_spent(c, st) ==
    IF c = "AmountChange" THEN AmountChange_from_spent(st) ELSE Tally(1)

StateChange_from_received(c, st) ==
    IF c = "AmountChange" THEN AmountChange_from_received(st) ELSE Tally(1)

StateChange_merge_spent(c, self, st) ==
    IF c = "AmountChange" THEN AmountChange_merge_spent(self, st)
    ELSE Tally(self.val + 1)

StateChange_merge_received(c, self, st) ==
    IF c = "AmountChange" THEN AmountChange_merge_received(self, st)
    ELSE Tally(self.val + 1)

(***************************************************************************)
(* SpecChange: a sequence of spend/receive events folded through one       *)
(* AmountChange, the first by from_*, every further one by merge_*.        *)
(***************************************************************************)
ChangeUnused ==
    /\ change = Zero
    /\ totalSpent = 0
    /\ totalReceived = 0
    /\ nEvents = 0
    /\ merges = <<>>

OpsUnused ==
    /\ spent = <<>>
    /\ allocations = <<>>
    /\ ops = <<>>

NoFeatures == [renaming |-> FALSE, reserves |-> FALSE, inflation |-> "Fixed"]
NoComposed == [iface |-> <<>>, extended |-> <<>>]
NoIssue ==
    [builder |-> [liquid |-> FALSE, asset_tag |-> FALSE, fungible |-> <<>>, global |-> <<>>],
     issued |-> 0, deterministic |-> FALSE]

IssueUnused ==
    /\ debugAssertions = FALSE
    /\ features = NoFeatures
    /\ composed = NoComposed
    /\ issue = NoIssue
    /\ log = <<>>

NoIface == [global_state |-> <<>>, assignments |-> <<>>]
NoCall == [query |-> "none", name |-> "", filter |-> {}]
NoResult == [status |-> "none", name |-> "", items |-> <<>>, ops |-> <<>>]
NoWork == [filtered |-> 0, decoded |-> 0, folded |-> 0]

ViewUnused ==
    /\ state = [rights |-> <<>>, fungible |-> <<>>, data |-> <<>>, attach |-> <<>>,
                global |-> <<>>]
    /\ schema = <<>>
    /\ iface = NoIface
    /\ call = NoCall
    /\ result = NoResult
    /\ work = NoWork

InitChange ==
    /\ pc = "fresh"
    /\ overflowChecks \in BOOLEAN
    /\ ChangeUnused
    /\ OpsUnused
    /\ IssueUnused
    /\ ViewUnused

ChangeFromSpent(a) ==
    /\ pc = "fresh"
    /\ change' = AmountChange_from_spent(a)
    /\ totalSpent' = a
    /\ nEvents' = 1
    /\ pc' = "folding"
    /\ UNCHANGED <<overflowChecks, issueVars, totalReceived, merges, opsVars, viewVars>>

ChangeFromReceived(a) ==
    /\ pc = "fresh"
    /\ change' = AmountChange_from_received(a)
    /\ totalReceived' = a
    /\ nEvents' = 1
    /\ pc' = "folding"
    /\ UNCHANGED <<overflowChecks, issueVars, totalSpent, merges, opsVars, viewVars>>

ChangeMergeSpent(a) ==
    /\ pc = "folding"
    /\ nEvents < MaxEvents
    /\ change' = AmountChange_merge_spent(change, a)
    /\ totalSpent' = totalSpent + a
    /\ nEvents' = nEvents + 1
    /\ pc' = IF change'.tag = "Panicked" THEN "panicked" ELSE "folding"
    /\ UNCHANGED <<overflowChecks, issueVars, totalReceived, merges, opsVars, viewVars>>

ChangeMergeReceived(a) ==
    /\ pc = "folding"
    /\ nEvents < MaxEvents
    /\ change' = AmountChange_merge_received(change, a)
    /\ totalReceived' = totalReceived + a
    /\ nEvents' = nEvents + 1
    /\ pc' = IF change'.tag = "Panicked" THEN "panicked" ELSE "folding"
    /\ UNCHANGED <<overflowChecks, issueVars, totalSpent, merges, opsVars, viewVars>>

NextChange ==
    \/ \E a \in Amounts : ChangeFromSpent(a)
    \/ \E a \in Amounts : ChangeFromReceived(a)
    \/ \E a \in Amounts : ChangeMergeSpent(a)
    \/ \E a \in Amounts : ChangeMergeReceived(a)

SpecChange == InitChange /\ [][NextChange]_vars

(***************************************************************************)
(* SpecMerge: merge_spent and merge_received called in any order on an     *)
(* AmountChange that starts at any value of the enum.                      *)
(***************************************************************************)
AmountChanges == {Zero} \cup {Dec(n) : n \in Amounts} \cup {Inc(n) : n \in Amounts}

InitMerge ==
    /\ pc = "merging"
    /\ overflowChecks \in BOOLEAN
    /\ change \in AmountChanges
    /\ totalSpent = 0
    /\ totalReceived = 0
    /\ nEvents = 0
    /\ merges = <<>>
    /\ OpsUnused
    /\ IssueUnused
    /\ ViewUnused

Merged(op, a, after) ==
    /\ pc = "merging"
    /\ Len(merges) < MaxEvents
    /\ change' = after
    /\ merges' = Append(merges, [op |-> op, arg |-> a, before |-> change])
    /\ pc' = IF after.tag = "Panicked" THEN "panicked" ELSE "merging"
    /\ UNCHANGED <<overflowChecks, issueVars, totalSpent, totalReceived, nEvents, opsVars,
                   viewVars>>

MergeSpent(a) == Merged("merge_spent", a, AmountChange_merge_spent(change, a))

MergeReceived(a) == Merged("merge_received", a, AmountChange_merge_received(change, a))

NextMerge ==
    \/ \E a \in Amounts : MergeSpent(a)
    \/ \E a \in Amounts : MergeReceived(a)

SpecMerge == InitMerge /\ [][NextMerge]_vars

(***************************************************************************)
(* OutputAssignment: one state record of one contract operation.  `op` and *)
(* `ty` are the operation id and the assignment-type id of its opout,      *)
(* `seal` the output it is bound to, `witness` the settling-transaction id *)
(* (NoWitness while the operation is not settled), `state` the payload.    *)
(***************************************************************************)
OpIds == {1, 2}
WitnessIds == {1, 2}
NoWitness == 0

\* The allocations the iterators handed to operations() can yield.  The loop
\* reads only the operation id, the witness and the state of an allocation.
OpsAllocs ==
    [op : OpIds, ty : {1}, seal : {1}, witness : {NoWitness} \cup WitnessIds,
     state : Amounts]

(***************************************************************************)
(* SmallOrdSet<OpId>::push: a confined ordered set.  It refuses an element *)
(* only when the set is at its maximum length; an element already present  *)
(* is not an error and leaves the set as it is.                            *)
(***************************************************************************)
SmallOrdSetMax == 65535

\* Faulty variant: an element already present is refused as well.
SmallOrdSet_push_RefusingDuplicates(set, elem) ==
    IF Cardinality(set) >= SmallOrdSetMax \/ elem \in set
    THEN [err |-> TRUE, set |-> set]
    ELSE [err |-> FALSE, set |-> set \cup {elem}]

SmallOrdSet_push(set, elem) ==
    IF Cardinality(set) >= SmallOrdSetMax
    THEN [err |-> TRUE, set |-> set]
    ELSE [err |-> FALSE, set |-> set \cup {elem}]

(***************************************************************************)
(* struct IfaceOp and its four constructors/merges, with AmountChange as   *)
(* the StateChange.  A merge panics when push is refused (the expect) or   *)
(* when the amount arithmetic panics.                                      *)
(***************************************************************************)
IfaceOp_from_spent(c, alloc) ==
    [opids |-> {},
     inputs |-> {alloc.op},
     state_change |-> StateChange_from_spent(c, alloc.state),
     payers |-> {},
     beneficiaries |-> {}]

\* Faulty variant: the originating operation id is not recorded.
IfaceOp_from_received_NoOpid(c, alloc) ==
    [opids |-> {},
     inputs |-> {},
     state_change |-> StateChange_from_received(c, alloc.state),
     payers |-> {},
     beneficiaries |-> {}]

IfaceOp_from_received(c, alloc) ==
    [opids |-> {alloc.op},
     inputs |-> {},
     state_change |-> StateChange_from_received(c, alloc.state),
     payers |-> {},
     beneficiaries |-> {}]

\* Faulty variant: the spent operation id lands in the received set.
IfaceOp_merge_spent_WrongSet(c, self, alloc) ==
    LET pushed == SmallOrdSet_push(self.opids, alloc.op)
        merged == StateChange_merge_spent(c, self.state_change, alloc.state)
    IN  IF pushed.err \/ merged.tag = "Panicked"
        THEN [panic |-> TRUE, val |-> self]
        ELSE [panic |-> FALSE,
              val |-> [self EXCEPT !.opids = pushed.set, !.state_change = merged]]

IfaceOp_merge_spent(c, self, alloc) ==
    LET pushed == SmallOrdSet_push(self.inputs, alloc.op)
        merged == StateChange_merge_spent(c, self.state_change, alloc.state)
    IN  IF pushed.err \/ merged.tag = "Panicked"
        THEN [panic |-> TRUE, val |-> self]
        ELSE [panic |-> FALSE,
              val |-> [self EXCEPT !.inputs = pushed.set, !.state_change = merged]]

\* Faulty variant: the seal of the received allocation is attributed.
IfaceOp_merge_received_Attributing(c, self, alloc) ==
    LET pushed == SmallOrdSet_push(self.opids, alloc.op)
        merged == StateChange_merge_received(c, self.state_change, alloc.state)
    IN  IF pushed.err \/ merged.tag = "Panicked"
        THEN [panic |-> TRUE, val |-> self]
        ELSE [panic |-> FALSE,
              val |-> [self EXCEPT !.opids = pushed.set, !.state_change = merged,
                                   !.beneficiaries = @ \cup {alloc.seal}]]

IfaceOp_merge_received(c, self, alloc) ==
    LET pushed == SmallOrdSet_push(self.opids, alloc.op)
        merged == StateChange_merge_received(c, self.state_change, alloc.state)
    IN  IF pushed.err \/ merged.tag = "Panicked"
        THEN [panic |-> TRUE, val |-> self]
        ELSE [panic |-> FALSE,
              val |-> [self EXCEPT !.opids = pushed.set, !.state_change = merged]]

(***************************************************************************)
(* ContractIface::operations: the bodies of its two for-loops.  Each takes *)
(* the map and one allocation and gives the map after the iteration, or a  *)
(* panic.                                                                  *)
(***************************************************************************)
Insert(map, key, value) ==
    [k \in DOMAIN map \cup {key} |-> IF k = key THEN value ELSE map[k]]

\* Faulty variant: an unsettled allocation is not skipped but keyed under
\* the absent witness.
SpentBody_KeepingUnsettled(c, map, alloc) ==
    IF alloc.witness \in DOMAIN map
    THEN LET m == IfaceOp_merge_spent(c, map[alloc.witness], alloc)
         IN  [panic |-> m.panic, val |-> Insert(map, alloc.witness, m.val)]
    ELSE [panic |-> FALSE,
          val |-> Insert(map, alloc.witness, IfaceOp_from_spent(c, alloc))]

SpentBody(c, map, alloc) ==
    IF alloc.witness = NoWitness THEN [panic |-> FALSE, val |-> map]
    ELSE IF alloc.witness \in DOMAIN map
    THEN LET m == IfaceOp_merge_spent(c, map[alloc.witness], alloc)
         IN  [panic |-> m.panic, val |-> Insert(map, alloc.witness, m.val)]
    ELSE [panic |-> FALSE,
          val |-> Insert(map, alloc.witness, IfaceOp_from_spent(c, alloc))]

ReceivedBody(c, map, alloc) ==
    IF alloc.witness = NoWitness THEN [panic |-> FALSE, val |-> map]
    ELSE IF alloc.witness \in DOMAIN map
    THEN LET m == IfaceOp_merge_received(c, map[alloc.witness], alloc)
         IN  [panic |-> m.panic, val |-> Insert(map, alloc.witness, m.val)]
    ELSE [panic |-> FALSE,
          val |-> Insert(map, alloc.witness, IfaceOp_from_received(c, alloc))]

(***************************************************************************)
(* ContractIface::operations as one function: both loops run to the end,   *)
(* or to the first panic.  `steps` counts the loop bodies executed.        *)
(***************************************************************************)
RECURSIVE RunSpent(_, _, _)
RunSpent(c, acc, seq) ==
    IF acc.panic \/ seq = <<>> THEN acc
    ELSE LET r == SpentBody(c, acc.val, Head(seq))
         IN  RunSpent(c, [panic |-> r.panic, val |-> r.val, steps |-> acc.steps + 1],
                      Tail(seq))

RECURSIVE RunReceived(_, _, _)
RunReceived(c, acc, seq) ==
    IF acc.panic \/ seq = <<>> THEN acc
    ELSE LET r == ReceivedBody(c, acc.val, Head(seq))
         IN  RunReceived(c, [panic |-> r.panic, val |-> r.val, steps |-> acc.steps + 1],
                         Tail(seq))

operations(c, st, allocs) ==
    RunReceived(c, RunSpent(c, [panic |-> FALSE, val |-> <<>>, steps |-> 0], st), allocs)

(***************************************************************************)
(* SpecOps: one call of operations().  The two iterators are lazy: each    *)
(* loop iteration pulls the next allocation, and `spent`/`allocations`     *)
(* record what has been pulled.                                            *)
(***************************************************************************)
InitOps ==
    /\ pc = "idle"
    /\ overflowChecks \in BOOLEAN
    /\ ChangeUnused
    /\ OpsUnused
    /\ IssueUnused
    /\ ViewUnused

\* Entry: `let mut ops = HashMap::new()`.
Operations ==
    /\ pc = "idle"
    /\ pc' = "spent"
    /\ ops' = <<>>
    /\ UNCHANGED <<overflowChecks, issueVars, changeVars, spent, allocations, viewVars>>

\* One iteration of `for alloc in spent`.
SpentNext(alloc) ==
    /\ pc = "spent"
    /\ Len(spent) + Len(allocations) < MaxAllocs
    /\ spent' = Append(spent, alloc)
    /\ LET r == SpentBody("AmountChange", ops, alloc)
       IN  /\ ops' = r.val
           /\ pc' = IF r.panic THEN "panicked" ELSE "spent"
    /\ UNCHANGED <<overflowChecks, issueVars, changeVars, allocations, viewVars>>

\* The first iterator is exhausted.
SpentEnd ==
    /\ pc = "spent"
    /\ pc' = "received"
    /\ UNCHANGED <<overflowChecks, issueVars, changeVars, opsVars, viewVars>>

\* One iteration of `for alloc in allocations`.
ReceivedNext(alloc) ==
    /\ pc = "received"
    /\ Len(spent) + Len(allocations) < MaxAllocs
    /\ allocations' = Append(allocations, alloc)
    /\ LET r == ReceivedBody("AmountChange", ops, alloc)
       IN  /\ ops' = r.val
           /\ pc' = IF r.panic THEN "panicked" ELSE "received"
    /\ UNCHANGED <<overflowChecks, issueVars, changeVars, spent, viewVars>>

\* The second iterator is exhausted: `ops` is returned.
ReceivedEnd ==
    /\ pc = "received"
    /\ pc' = "done"
    /\ UNCHANGED <<overflowChecks, issueVars, changeVars, opsVars, viewVars>>

NextOps ==
    \/ Operations
    \/ \E alloc \in OpsAllocs : SpentNext(alloc)
    \/ SpentEnd
    \/ \E alloc \in OpsAllocs : ReceivedNext(alloc)
    \/ ReceivedEnd

SpecOps == InitOps /\ [][NextOps]_vars

(***************************************************************************)
(* ContractIface: a read-only view over a state store, a schema, an        *)
(* interface binding and a type system.                                    *)
(***************************************************************************)
TypeIds == {1, 2}
GlobalTypeIds == {1}
Seals == {1, 2}
Kinds == <<"rights", "fungible", "data", "attach">>

\* iface.assignments_type(name), iface.global_type(name): the id the interface
\* binding gives a field name, or none.
NoType == 0

iface_assignments_type(name) ==
    IF name \in DOMAIN iface.assignments THEN iface.assignments[name] ELSE NoType

iface_global_type(name) ==
    IF name \in DOMAIN iface.global_state THEN iface.global_state[name] ELSE NoType

\* The binding of an inflatable fungible asset: two assignment fields and one
\* global field; every other name is unbound.
InflatableIface ==
    [global_state |-> [n \in {"issuedSupply"} |-> 1],
     assignments |-> [n \in {"assetOwner", "inflationAllowance"} |->
                         IF n = "assetOwner" THEN 1 ELSE 2]]

\* The field names callers ask for: the bound ones and an unbound one.
FieldNames == {"assetOwner", "inflationAllowance", "issuedSupply", "unknown"}

\* The payload the store keeps for a record of operation `op`: the revealed
\* state, with the blinding factor or salt the typed views drop.
VoidState == 0

StoreState(kind, op) ==
    CASE kind = "rights" -> VoidState
      [] kind = "fungible" -> [value |-> IF op = 1 THEN 30 ELSE 70, blinding |-> 1]
      [] kind = "data" -> [value |-> 10 + op, salt |-> 1]
      [] kind = "attach" -> [file |-> 20 + op, salt |-> 1]

\* The records a store of the model holds: operation 1 is settled at witness
\* 1 and assigns to output 1, operation 2 is not settled and assigns to
\* output 2; each assigns state of any kind under any assignment type.
ViewAllocs(kind) ==
    {[op |-> o, ty |-> t, seal |-> o,
      witness |-> IF o = 1 THEN 1 ELSE NoWitness,
      state |-> StoreState(kind, o)] : o \in OpIds, t \in TypeIds}

\* Raw global records: bytes that decode under semantic type `sem` to `val`.
SchemaSemId == 1
RawData == [sem : {SchemaSemId, 2}, val : {100}]

SeqsUpTo(S, n) == UNION {[1..k -> S] : k \in 0..n}

\* state.rights_all(), fungible_all(), data_all(), attach_all().
KindAll(kind) ==
    CASE kind = "rights" -> state.rights
      [] kind = "fungible" -> state.fungible
      [] kind = "data" -> state.data
      [] kind = "attach" -> state.attach

\* U::from(A) of the typed views: VoidState, Amount, DataState, AttachState
\* from the store's revealed state.
TypedFrom(kind, st) ==
    CASE kind = "rights" -> st
      [] kind = "fungible" -> st.value
      [] kind = "data" -> st.value
      [] kind = "attach" -> st.file

\* AllocatedState::from: the tagged union over the four kinds.
AllocatedState_from(kind, st) ==
    CASE kind = "rights" -> [tag |-> "Void", val |-> 0]
      [] kind = "fungible" -> [tag |-> "Amount", val |-> st.value]
      [] kind = "data" -> [tag |-> "Data", val |-> st.value]
      [] kind = "attach" -> [tag |-> "Attachment", val |-> st.file]

\* OutputAssignment::transmute: the same record with its state converted.
transmute(kind, target, alloc) ==
    [alloc EXCEPT !.state = IF target = "AllocatedState"
                            THEN AllocatedState_from(kind, alloc.state)
                            ELSE TypedFrom(kind, alloc.state)]

MapTransmute(kind, target, seq) ==
    [i \in DOMAIN seq |-> transmute(kind, target, seq[i])]

\* OutpointFilter::include_outpoint: a filter is the set of outputs it lets
\* through; an outpoint used as a filter lets through itself alone.
include_outpoint(filter, seal) == seal \in filter

AlwaysTrue == Seals
Filters == {AlwaysTrue, {1}}

TypeMatches(type_id, outp) == outp.ty = type_id

\* Faulty variant: the type filter is dropped.
extract_state_AnyType(records, kind, name, filter) ==
    LET type_id == iface_assignments_type(name)
    IN  IF type_id = NoType
        THEN [status |-> "FieldNameUnknown", name |-> name, type_id |-> NoType,
              items |-> <<>>, filtered |-> 0]
        ELSE LET bySeal == SelectSeq(records,
                               LAMBDA outp : include_outpoint(filter, outp.seal))
             IN  [status |-> "Ok", name |-> "", type_id |-> type_id,
                  items |-> MapTransmute(kind, "typed", bySeal),
                  filtered |-> Len(records)]

\* ContractIface::extract_state, with the iterator it returns drained.
extract_state(records, kind, name, filter) ==
    LET type_id == iface_assignments_type(name)
    IN  IF type_id = NoType
        THEN [status |-> "FieldNameUnknown", name |-> name, type_id |-> NoType,
              items |-> <<>>, filtered |-> 0]
        ELSE LET byType == SelectSeq(records, LAMBDA outp : TypeMatches(type_id, outp))
                 bySeal == SelectSeq(byType,
                               LAMBDA outp : include_outpoint(filter, outp.seal))
             IN  [status |-> "Ok", name |-> "", type_id |-> type_id,
                  items |-> MapTransmute(kind, "typed", bySeal),
                  filtered |-> Len(records)]

\* Faulty variant: the filter is not consulted.
allocations_f_Unfiltered(filter, kind) ==
    MapTransmute(kind, "AllocatedState", KindAll(kind))

\* The inner fn f of allocations(): one kind's records that pass the filter.
allocations_f(filter, kind) ==
    MapTransmute(kind, "AllocatedState",
        SelectSeq(KindAll(kind), LAMBDA outp : include_outpoint(filter, outp.seal)))

\* Faulty variant: the fungible and the data records change places.
allocations_chain_Swapped(filter) ==
    allocations_f(filter, "rights") \o allocations_f(filter, "data")
        \o allocations_f(filter, "fungible") \o allocations_f(filter, "attach")

\* ContractIface::allocations: the four kinds chained.
allocations_chain(filter) ==
    allocations_f(filter, "rights") \o allocations_f(filter, "fungible")
        \o allocations_f(filter, "data") \o allocations_f(filter, "attach")

\* types.strict_deserialize_type(sem_id, data).expect(..), record by record.
RECURSIVE DecodeAll(_, _, _)
DecodeAll(sem_id, raws, acc) ==
    IF raws = <<>> THEN acc
    ELSE IF Head(raws).sem # sem_id
    THEN [acc EXCEPT !.panic = TRUE, !.decoded = acc.decoded + 1]
    ELSE DecodeAll(sem_id, Tail(raws),
                   [acc EXCEPT !.items = Append(acc.items, Head(raws).val),
                               !.decoded = acc.decoded + 1])

\* Faulty variant: a record that does not decode is passed over.
global_SkippingUndecodable(name) ==
    LET type_id == iface_global_type(name)
    IN  IF type_id = NoType
        THEN [status |-> "FieldNameUnknown", name |-> name, items |-> <<>>, decoded |-> 0]
        ELSE IF type_id \notin DOMAIN schema \/ type_id \notin DOMAIN state.global
        THEN [status |-> "Panic", name |-> "", items |-> <<>>, decoded |-> 0]
        ELSE LET good == SelectSeq(state.global[type_id],
                             LAMBDA raw : raw.sem = schema[type_id])
             IN  [status |-> "Ok", name |-> "",
                  items |-> [i \in DOMAIN good |-> good[i].val],
                  decoded |-> Len(state.global[type_id])]

\* ContractIface::global, with the iterator it returns drained.
global(name) ==
    LET type_id == iface_global_type(name)
    IN  IF type_id = NoType
        THEN [status |-> "FieldNameUnknown", name |-> name, items |-> <<>>, decoded |-> 0]
        ELSE IF type_id \notin DOMAIN schema \/ type_id \notin DOMAIN state.global
        THEN [status |-> "Panic", name |-> "", items |-> <<>>, decoded |-> 0]
        ELSE LET d == DecodeAll(schema[type_id], state.global[type_id],
                                [panic |-> FALSE, items |-> <<>>, decoded |-> 0])
             IN  [status |-> IF d.panic THEN "Panic" ELSE "Ok", name |-> "",
                  items |-> IF d.panic THEN <<>> ELSE d.items, decoded |-> d.decoded]

RECURSIVE ScanTo(_, _, _, _)
\* Records a lazy type-and-seal filter over `records` reads to yield k items.
ScanTo(records, type_id, filter, k) ==
    IF k = 0 \/ records = <<>> THEN 0
    ELSE IF TypeMatches(type_id, Head(records))
            /\ include_outpoint(filter, Head(records).seal)
    THEN 1 + ScanTo(Tail(records), type_id, filter, k - 1)
    ELSE 1 + ScanTo(Tail(records), type_id, filter, k)

\* Faulty variant: the history is folded before the name is resolved.
kind_ops_FoldFirst(kind, c, name, filter) ==
    LET st == MapTransmute(kind, "typed", KindAll(kind))
        spentRun == RunSpent(c, [panic |-> FALSE, val |-> <<>>, steps |-> 0], st)
        al == extract_state(KindAll(kind), kind, name, filter)
    IN  IF al.status # "Ok"
        THEN [status |-> al.status, name |-> al.name, ops |-> <<>>,
              work |-> [filtered |-> 0, decoded |-> 0, folded |-> spentRun.steps]]
        ELSE LET r == RunReceived(c, spentRun, al.items)
             IN  [status |-> IF r.panic THEN "Panic" ELSE "Ok", name |-> "",
                  ops |-> IF r.panic THEN <<>> ELSE r.val,
                  work |-> [filtered |-> Len(KindAll(kind)), decoded |-> 0,
                            folded |-> r.steps]]

\* fungible_ops, data_ops, rights_ops, attachment_ops: operations() over all
\* records of the kind as spend candidates and the field's filtered records
\* as receive events.  The first argument is a lazy iterator; the second is
\* where the name is resolved, and `?` returns its error before operations()
\* is entered.
kind_ops(kind, c, name, filter) ==
    LET st == MapTransmute(kind, "typed", KindAll(kind))
        al == extract_state(KindAll(kind), kind, name, filter)
    IN  IF al.status # "Ok"
        THEN [status |-> al.status, name |-> al.name, ops |-> <<>>, work |-> NoWork]
        ELSE LET spentRun == RunSpent(c, [panic |-> FALSE, val |-> <<>>, steps |-> 0], st)
                 r == RunReceived(c, spentRun, al.items)
                 read == IF spentRun.panic THEN 0
                         ELSE IF r.panic
                         THEN ScanTo(KindAll(kind), al.type_id, filter,
                                     r.steps - spentRun.steps)
                         ELSE Len(KindAll(kind))
             IN  [status |-> IF r.panic THEN "Panic" ELSE "Ok", name |-> "",
                  ops |-> IF r.panic THEN <<>> ELSE r.val,
                  work |-> [filtered |-> read, decoded |-> 0, folded |-> r.steps]]

(***************************************************************************)
(* SpecView: one query on a ContractIface.  The store, the schema and the  *)
(* build profile are fixed when the view is made.                          *)
(***************************************************************************)
GlobalStates(n) ==
    {<<>>} \cup {[t \in GlobalTypeIds |-> g] : g \in SeqsUpTo(RawData, n)}

GlobalLen(g) == IF DOMAIN g = {} THEN 0 ELSE Len(g[1])

InitView ==
    /\ pc = "idle"
    /\ overflowChecks \in BOOLEAN
    /\ ChangeUnused
    /\ OpsUnused
    /\ IssueUnused
    /\ \E r \in SeqsUpTo(ViewAllocs("rights"), MaxStore) :
       \E f \in SeqsUpTo(ViewAllocs("fungible"), MaxStore - Len(r)) :
       \E d \in SeqsUpTo(ViewAllocs("data"), MaxStore - Len(r) - Len(f)) :
       \E a \in SeqsUpTo(ViewAllocs("attach"), MaxStore - Len(r) - Len(f) - Len(d)) :
       \E g \in GlobalStates(MaxStore - Len(r) - Len(f) - Len(d) - Len(a)) :
           state = [rights |-> r, fungible |-> f, data |-> d, attach |-> a,
                    global |-> g]
    /\ schema \in {<<>>, [t \in GlobalTypeIds |-> SchemaSemId]}
    /\ iface = InflatableIface
    /\ call = NoCall
    /\ result = NoResult
    /\ work = NoWork

Returns(q, name, filter, res, wk) ==
    /\ pc = "idle"
    /\ pc' = "returned"
    /\ call' = [query |-> q, name |-> name, filter |-> filter]
    /\ result' = res
    /\ work' = wk
    /\ UNCHANGED <<overflowChecks, issueVars, changeVars, opsVars, state, schema, iface>>

Global(name) ==
    LET r == global(name)
    IN  Returns("global", name, {},
                [status |-> r.status, name |-> r.name, items |-> r.items, ops |-> <<>>],
                [NoWork EXCEPT !.decoded = r.decoded])

\* rights, fungible, data, attachments and their eager *_all twins.
Typed(q, kind, name, filter) ==
    LET r == extract_state(KindAll(kind), kind, name, filter)
    IN  Returns(q, name, filter,
                [status |-> r.status, name |-> r.name, items |-> r.items, ops |-> <<>>],
                [NoWork EXCEPT !.filtered = r.filtered])

Rights(name, filter) == Typed("rights", "rights", name, filter)
RightsAll(name, filter) == Typed("rights_all", "rights", name, filter)
Fungible(name, filter) == Typed("fungible", "fungible", name, filter)
FungibleAll(name, filter) == Typed("fungible_all", "fungible", name, filter)
Data(name, filter) == Typed("data", "data", name, filter)
DataAll(name, filter) == Typed("data_all", "data", name, filter)
Attachments(name, filter) == Typed("attachments", "attach", name, filter)
AttachmentsAll(name, filter) == Typed("attachments_all", "attach", name, filter)

Allocations(filter) ==
    Returns("allocations", "", filter,
            [status |-> "Ok", name |-> "", items |-> allocations_chain(filter),
             ops |-> <<>>],
            [NoWork EXCEPT !.filtered = Len(state.rights) + Len(state.fungible)
                                        + Len(state.data) + Len(state.attach)])

OutpointAllocations(outpoint) ==
    Returns("outpoint_allocations", "", {outpoint},
            [status |-> "Ok", name |-> "", items |-> allocations_chain({outpoint}),
             ops |-> <<>>],
            [NoWork EXCEPT !.filtered = Len(state.rights) + Len(state.fungible)
                                        + Len(state.data) + Len(state.attach)])

KindOps(q, kind, c, name, filter) ==
    LET r == kind_ops(kind, c, name, filter)
    IN  Returns(q, name, filter,
                [status |-> r.status, name |-> r.name, items |-> <<>>, ops |-> r.ops],
                r.work)

FungibleOps(name, filter) == KindOps("fungible_ops", "fungible", "AmountChange", name, filter)
DataOps(name, filter) == KindOps("data_ops", "data", "Tally", name, filter)
RightsOps(name, filter) == KindOps("rights_ops", "rights", "Tally", name, filter)
AttachmentOps(name, filter) == KindOps("attachment_ops", "attach", "Tally", name, filter)

NextView ==
    \/ \E name \in FieldNames : Global(name)
    \/ \E name \in FieldNames, filter \in Filters : Rights(name, filter)
    \/ \E name \in FieldNames, filter \in Filters : RightsAll(name, filter)
    \/ \E name \in FieldNames, filter \in Filters : Fungible(name, filter)
    \/ \E name \in FieldNames, filter \in Filters : FungibleAll(name, filter)
    \/ \E name \in FieldNames, filter \in Filters : Data(name, filter)
    \/ \E name \in FieldNames, filter \in Filters : DataAll(name, filter)
    \/ \E name \in FieldNames, filter \in Filters : Attachments(name, filter)
    \/ \E name \in FieldNames, filter \in Filters : AttachmentsAll(name, filter)
    \/ \E filter \in Filters : Allocations(filter)
    \/ \E outpoint \in Seals : OutpointAllocations(outpoint)
    \/ \E name \in FieldNames, filter \in Filters : FungibleOps(name, filter)
    \/ \E name \in FieldNames, filter \in Filters : DataOps(name, filter)
    \/ \E name \in FieldNames, filter \in Filters : RightsOps(name, filter)
    \/ \E name \in FieldNames, filter \in Filters : AttachmentOps(name, filter)

SpecView == InitView /\ [][NextView]_vars

(***************************************************************************)
(* Rgb20: the fungible-asset wrapper over a ContractIface                   *)
(* (src/src/interface/rgb20.rs).                                           *)
(***************************************************************************)
\* Amount::saturating_add and the Sum it backs: `.sum::<Amount>()` folds from
\* Amount::ZERO and stays at the maximum of the domain once it is exceeded.
Amount_saturating_add(a, b) == IF a + b > AmountMax THEN AmountMax ELSE a + b

\* Faulty variant: the fold adds with wrap-around.
Amount_sum_Wrapping(seq) ==
    LET F[i \in 0..Len(seq)] ==
            IF i = 0 THEN 0 ELSE (F[i - 1] + seq[i]) % AmountModulus
    IN  F[Len(seq)]

Amount_sum(seq) ==
    LET F[i \in 0..Len(seq)] ==
            IF i = 0 THEN 0 ELSE Amount_saturating_add(F[i - 1], seq[i])
    IN  F[Len(seq)]

\* Amount::from_strict_val_unchecked: the unsigned integer a decoded value holds.
Amount_from_strict_val_unchecked(value) == value.uint

\* Faulty variant: every fungible field counts, not assetOwner alone.
Rgb20_allocations_AnyField(filter) ==
    extract_state_AnyType(state.fungible, "fungible", "assetOwner", filter)

\* Rgb20::allocations: fungible("assetOwner", filter).expect(..).
Rgb20_allocations(filter) ==
    extract_state(state.fungible, "fungible", "assetOwner", filter)

\* Rgb20::balance.
Rgb20_balance(filter) ==
    LET al == Rgb20_allocations(filter)
    IN  IF al.status # "Ok" THEN Panic
        ELSE Ok(Amount_sum([i \in DOMAIN al.items |-> al.items[i].state]))

\* `.iter().map(Amount::from_strict_val_unchecked).sum()` over a global's values.
SumOfGlobal(items) ==
    Amount_sum([i \in DOMAIN items |-> Amount_from_strict_val_unchecked(items[i])])

\* Rgb20::total_issued_supply: global("issuedSupply").expect(..).
Rgb20_total_issued_supply ==
    LET g == global("issuedSupply")
    IN  IF g.status # "Ok" THEN Panic ELSE Ok(SumOfGlobal(g.items))

\* Rgb20::total_burned_supply: global("burnedSupply").unwrap_or_default().
Rgb20_total_burned_supply ==
    LET g == global("burnedSupply")
    IN  IF g.status = "Panic" THEN Panic
        ELSE IF g.status = "FieldNameUnknown" THEN Ok(SumOfGlobal(<<>>))
        ELSE Ok(SumOfGlobal(g.items))

\* Rgb20::transfer_history: fungible_ops("assetOwner", ..).expect(..).
Rgb20_transfer_history(filter) ==
    LET r == kind_ops("fungible", "AmountChange", "assetOwner", filter)
    IN  IF r.status # "Ok" THEN [status |-> "Panic", ops |-> <<>>]
        ELSE [status |-> "Ok", ops |-> r.ops]

\* Faulty variant: the burned total is not subtracted.
Rgb20_total_supply_IssuedOnly == Rgb20_total_issued_supply

\* Rgb20::total_supply: total_issued_supply() - total_burned_supply().
Rgb20_total_supply ==
    LET issued == Rgb20_total_issued_supply
        burned == Rgb20_total_burned_supply
    IN  IF issued.panic \/ burned.panic THEN Panic
        ELSE Sub(issued.val, burned.val)

(***************************************************************************)
(* SpecRgb20: one query on an Rgb20 over a valid contract: the schema and  *)
(* the store define every global type the interface binds, and every       *)
(* global record decodes.                                                  *)
(***************************************************************************)
\* The binding of a burnable asset: burnedSupply is bound as well.
BurnableIface ==
    [global_state |-> [n \in {"issuedSupply", "burnedSupply"} |->
                          IF n = "issuedSupply" THEN 1 ELSE 2],
     assignments |-> InflatableIface.assignments]

\* Amounts of the fungible allocations and of the supply records in a store.
BalanceAmounts == {1, 30, 70, AmountMax}
SupplyAmounts == {10, 40, AmountMax}

Rgb20Allocs ==
    {[op |-> o, ty |-> t, seal |-> o,
      witness |-> IF o = 1 THEN 1 ELSE NoWitness,
      state |-> [value |-> v, blinding |-> 1]] :
        o \in OpIds, t \in TypeIds, v \in BalanceAmounts}

\* Raw global records that decode to an unsigned integer.
SupplyData == {[sem |-> SchemaSemId, val |-> [uint |-> v]] : v \in SupplyAmounts}

InitRgb20 ==
    /\ pc = "idle"
    /\ overflowChecks \in BOOLEAN
    /\ ChangeUnused
    /\ OpsUnused
    /\ IssueUnused
    /\ iface \in {InflatableIface, BurnableIface}
    /\ schema = [t \in {iface.global_state[n] : n \in DOMAIN iface.global_state} |->
                    SchemaSemId]
    /\ \E f \in SeqsUpTo(Rgb20Allocs, MaxRgb20) :
       \E i \in SeqsUpTo(SupplyData, MaxRgb20 - Len(f)) :
       \E b \in SeqsUpTo(SupplyData, MaxRgb20 - Len(f) - Len(i)) :
           /\ (b # <<>>) => iface = BurnableIface
           /\ state = [rights |-> <<>>, fungible |-> f, data |-> <<>>,
                       attach |-> <<>>,
                       global |-> [t \in DOMAIN schema |-> IF t = 1 THEN i ELSE b]]
    /\ call = NoCall
    /\ result = NoResult
    /\ work = NoWork

\* A query of the wrapper returns an amount, or panics.
ReturnsAmount(q, filter, r) ==
    Returns(q, "", filter,
            [status |-> IF r.panic THEN "Panic" ELSE "Ok", amount |-> r.val],
            NoWork)

Balance(filter) == ReturnsAmount("balance", filter, Rgb20_balance(filter))

TotalIssuedSupply == ReturnsAmount("total_issued_supply", {}, Rgb20_total_issued_supply)

TotalBurnedSupply == ReturnsAmount("total_burned_supply", {}, Rgb20_total_burned_supply)

TotalSupply == ReturnsAmount("total_supply", {}, Rgb20_total_supply)

TransferHistory(filter) ==
    LET r == Rgb20_transfer_history(filter)
    IN  Returns("transfer_history", "assetOwner", filter,
                [status |-> r.status, ops |-> r.ops], NoWork)

NextRgb20 ==
    \/ \E filter \in Filters : Balance(filter)
    \/ \E filter \in Filters : TransferHistory(filter)
    \/ TotalIssuedSupply
    \/ TotalBurnedSupply
    \/ TotalSupply

SpecRgb20 == InitRgb20 /\ [][NextRgb20]_vars

(***************************************************************************)
(* SpecShared: two threads query one ContractIface through shared          *)
(* references, each once and in any order.                                 *)
(***************************************************************************)
Threads == {1, 2}

\* The field names the threads ask for: one bound to an assignment type and
\* one bound to a global type, each unbound for the other kind of query.
SharedNames == {"assetOwner", "issuedSupply"}

\* What a query of the view returns for its arguments.
Answer(q, name, filter) ==
    CASE q = "global" ->
            LET r == global(name)
            IN  [status |-> r.status, name |-> r.name, items |-> r.items, ops |-> <<>>]
      [] q \in {"rights", "rights_all"} ->
            LET r == extract_state(state.rights, "rights", name, filter)
            IN  [status |-> r.status, name |-> r.name, items |-> r.items, ops |-> <<>>]
      [] q \in {"fungible", "fungible_all"} ->
            LET r == extract_state(state.fungible, "fungible", name, filter)
            IN  [status |-> r.status, name |-> r.name, items |-> r.items, ops |-> <<>>]
      [] q \in {"data", "data_all"} ->
            LET r == extract_state(state.data, "data", name, filter)
            IN  [status |-> r.status, name |-> r.name, items |-> r.items, ops |-> <<>>]
      [] q \in {"attachments", "attachments_all"} ->
            LET r == extract_state(state.attach, "attach", name, filter)
            IN  [status |-> r.status, name |-> r.name, items |-> r.items, ops |-> <<>>]
      [] q \in {"allocations", "outpoint_allocations"} ->
            [status |-> "Ok", name |-> "", items |-> allocations_chain(filter),
             ops |-> <<>>]
      [] q = "fungible_ops" ->
            LET r == kind_ops("fungible", "AmountChange", name, filter)
            IN  [status |-> r.status, name |-> r.name, items |-> <<>>, ops |-> r.ops]
      [] q = "data_ops" ->
            LET r == kind_ops("data", "Tally", name, filter)
            IN  [status |-> r.status, name |-> r.name, items |-> <<>>, ops |-> r.ops]
      [] q = "rights_ops" ->
            LET r == kind_ops("rights", "Tally", name, filter)
            IN  [status |-> r.status, name |-> r.name, items |-> <<>>, ops |-> r.ops]
      [] q = "attachment_ops" ->
            LET r == kind_ops("attach", "Tally", name, filter)
            IN  [status |-> r.status, name |-> r.name, items |-> <<>>, ops |-> r.ops]
      [] q = "balance" ->
            LET r == Rgb20_balance(filter)
            IN  [status |-> IF r.panic THEN "Panic" ELSE "Ok", amount |-> r.val]

\* Faulty variant: a query consumes the fungible records it has read.
StoreAfter_Draining(q) ==
    IF q \in {"fungible", "fungible_all", "fungible_ops", "balance"}
    THEN [state EXCEPT !.fungible = <<>>]
    ELSE state

\* The store after a query: every query takes `&self` and only reads.
StoreAfter(q) == state

InitShared ==
    /\ pc = [t \in Threads |-> "idle"]
    /\ overflowChecks \in BOOLEAN
    /\ ChangeUnused
    /\ OpsUnused
    /\ IssueUnused
    /\ \E r \in SeqsUpTo(ViewAllocs("rights"), MaxShared) :
       \E f \in SeqsUpTo(ViewAllocs("fungible"), MaxShared - Len(r)) :
       \E d \in SeqsUpTo(ViewAllocs("data"), MaxShared - Len(r) - Len(f)) :
       \E a \in SeqsUpTo(ViewAllocs("attach"), MaxShared - Len(r) - Len(f) - Len(d)) :
       \E g \in GlobalStates(MaxShared - Len(r) - Len(f) - Len(d) - Len(a)) :
           state = [rights |-> r, fungible |-> f, data |-> d, attach |-> a,
                    global |-> g]
    /\ schema \in {<<>>, [t \in GlobalTypeIds |-> SchemaSemId]}
    /\ iface = InflatableIface
    /\ call = [t \in Threads |-> NoCall]
    /\ result = [t \in Threads |-> NoResult]
    /\ work = NoWork

\* Thread t runs query q to its end.
Query(t, q, name, filter) ==
    /\ pc[t] = "idle"
    /\ pc' = [pc EXCEPT ![t] = "returned"]
    /\ call' = [call EXCEPT ![t] = [query |-> q, name |-> name, filter |-> filter]]
    /\ result' = [result EXCEPT ![t] = Answer(q, name, filter)]
    /\ state' = StoreAfter(q)
    /\ UNCHANGED <<overflowChecks, issueVars, changeVars, opsVars, schema, iface, work>>

QueryGlobal(t) == \E name \in SharedNames : Query(t, "global", name, {})

QueryTyped(t) ==
    \E q \in {"rights", "rights_all", "fungible", "fungible_all", "data", "data_all",
              "attachments", "attachments_all"},
       name \in SharedNames, filter \in Filters :
        Query(t, q, name, filter)

QueryAllocations(t) == \E filter \in Filters : Query(t, "allocations", "", filter)

QueryOutpointAllocations(t) ==
    \E outpoint \in Seals : Query(t, "outpoint_allocations", "", {outpoint})

QueryOps(t) ==
    \E q \in {"fungible_ops", "data_ops", "rights_ops", "attachment_ops"},
       name \in SharedNames, filter \in Filters :
        Query(t, q, name, filter)

QueryBalance(t) == \E filter \in Filters : Query(t, "balance", "", filter)

NextShared ==
    \/ \E t \in Threads : QueryGlobal(t)
    \/ \E t \in Threads : QueryTyped(t)
    \/ \E t \in Threads : QueryAllocations(t)
    \/ \E t \in Threads : QueryOutpointAllocations(t)
    \/ \E t \in Threads : QueryOps(t)
    \/ \E t \in Threads : QueryBalance(t)

SpecShared == InitShared /\ [][NextShared]_vars

(***************************************************************************)
(* The RGB20 interface family (rgb20.rs): the eight interface declarations *)
(* and their composition by Rgb20::iface.  An interface is kept by the     *)
(* names it declares and uses; types and occurrence counts are left out.   *)
(***************************************************************************)
GenesisIface(globals, assigns) == [globals |-> globals, assignments |-> assigns]

\* default_assignment None is the empty name.
TransitionIface(globals, inputs, assigns, default) ==
    [globals |-> globals, inputs |-> inputs, assignments |-> assigns,
     default_assignment |-> default]

NoTransitions == [n \in {} |-> TransitionIface({}, {}, {}, "")]

named_asset ==
    [name |-> "NamedAsset",
     global_state |-> {"spec", "terms"},
     assignments |-> {},
     genesis |-> GenesisIface({"spec", "terms"}, {}),
     transitions |-> NoTransitions,
     default_operation |-> ""]

renameable ==
    [name |-> "RenameableAsset",
     global_state |-> {},
     assignments |-> {"updateRight"},
     genesis |-> GenesisIface({}, {"updateRight"}),
     transitions |-> [n \in {"rename"} |->
        TransitionIface({"spec"}, {"updateRight"}, {"updateRight"}, "updateRight")],
     default_operation |-> ""]

fungible ==
    [name |-> "FungibleAsset",
     global_state |-> {"issuedSupply"},
     assignments |-> {"assetOwner"},
     genesis |-> GenesisIface({"issuedSupply"}, {"assetOwner"}),
     transitions |-> [n \in {"transfer"} |->
        TransitionIface({}, {"assetOwner"}, {"assetOwner"}, "assetOwner")],
     default_operation |-> "transfer"]

reservable ==
    [name |-> "ReservableAsset",
     global_state |-> {},
     assignments |-> {},
     genesis |-> GenesisIface({}, {}),
     transitions |-> [n \in {"issue"} |-> TransitionIface({}, {}, {}, "assetOwner")],
     default_operation |-> ""]

fixed ==
    [name |-> "FixedAsset",
     global_state |-> {},
     assignments |-> {"assetOwner"},
     genesis |-> GenesisIface({}, {"assetOwner"}),
     transitions |-> NoTransitions,
     default_operation |-> ""]

inflatable ==
    [name |-> "InflatableAsset",
     global_state |-> {"issuedSupply"},
     assignments |-> {"inflationAllowance"},
     genesis |-> GenesisIface({}, {"inflationAllowance"}),
     transitions |-> [n \in {"issue"} |->
        TransitionIface({"issuedSupply"}, {"inflationAllowance"},
                        {"assetOwner", "inflationAllowance"}, "assetOwner")],
     default_operation |-> ""]

burnable ==
    [name |-> "BurnableAsset",
     global_state |-> {"burnedSupply"},
     assignments |-> {"burnRight"},
     genesis |-> GenesisIface({}, {"burnRight"}),
     transitions |-> [n \in {"burn"} |->
        TransitionIface({"burnedSupply"}, {"burnRight"}, {"burnRight"}, "")],
     default_operation |-> ""]

replaceable ==
    [name |-> "ReplaceableAsset",
     global_state |-> {"burnedSupply", "replacedSupply"},
     assignments |-> {"burnEpoch", "burnRight"},
     genesis |-> GenesisIface({}, {"burnEpoch"}),
     transitions |-> [n \in {"openEpoch", "burn", "replace"} |->
        CASE n = "openEpoch" ->
                TransitionIface({}, {"burnEpoch"}, {"burnEpoch", "burnRight"}, "burnRight")
          [] n = "burn" ->
                TransitionIface({"burnedSupply"}, {"burnRight"}, {"burnRight"}, "")
          [] n = "replace" ->
                TransitionIface({"replacedSupply"}, {"burnRight"},
                                {"assetOwner", "burnRight"}, "assetOwner")],
     default_operation |-> ""]

\* enum Inflation and its predicates.
Inflations == {"Fixed", "Burnable", "Inflatible", "InflatibleBurnable", "Replaceable"}

Inflation_is_fixed(i) == i = "Fixed"
Inflation_is_inflatible(i) == i \in {"Inflatible", "InflatibleBurnable", "Replaceable"}
Inflation_is_replacable(i) == i = "Replaceable"
Inflation_is_burnable(i) == i \in {"Burnable", "Replaceable"}

FeaturesSet == [renaming : BOOLEAN, reserves : BOOLEAN, inflation : Inflations]
Features_none == [renaming |-> FALSE, reserves |-> FALSE, inflation |-> "Fixed"]
Features_all == [renaming |-> TRUE, reserves |-> TRUE, inflation |-> "Replaceable"]

\* Extending one operation declaration by another of the same name.
MergeTransition(t, e) ==
    TransitionIface(t.globals \cup e.globals, t.inputs \cup e.inputs,
                    t.assignments \cup e.assignments,
                    IF e.default_assignment # "" THEN e.default_assignment
                    ELSE t.default_assignment)

Iface_expect_extended_Replacing(base, ext) == ext

\* Iface::expect_extended: the extension's declarations are added to those of
\* the base, which keeps its own.
Iface_expect_extended(base, ext) ==
    [name |-> ext.name,
     global_state |-> base.global_state \cup ext.global_state,
     assignments |-> base.assignments \cup ext.assignments,
     genesis |-> GenesisIface(base.genesis.globals \cup ext.genesis.globals,
                              base.genesis.assignments \cup ext.genesis.assignments),
     transitions |->
        [n \in DOMAIN base.transitions \cup DOMAIN ext.transitions |->
            IF n \in DOMAIN base.transitions /\ n \in DOMAIN ext.transitions
            THEN MergeTransition(base.transitions[n], ext.transitions[n])
            ELSE IF n \in DOMAIN ext.transitions THEN ext.transitions[n]
            ELSE base.transitions[n]],
     default_operation |-> IF ext.default_operation # "" THEN ext.default_operation
                           ELSE base.default_operation]

\* What iface() holds in its local `iface`: the interface composed so far and
\* the names of the declarations it was extended with, in order.
Extended(c, ext) ==
    [iface |-> Iface_expect_extended(c.iface, ext),
     extended |-> Append(c.extended, ext.name)]

\* Rgb20::iface as one function: the steps of SpecIface below, run to the end.
Rgb20_iface(f) ==
    LET s0 == [iface |-> Iface_expect_extended(named_asset, fungible),
               extended |-> <<"NamedAsset", "FungibleAsset">>]
        s1 == IF f.renaming THEN Extended(s0, renameable) ELSE s0
        s2 == IF Inflation_is_fixed(f.inflation) THEN Extended(s1, fixed) ELSE s1
        s3 == IF Inflation_is_inflatible(f.inflation) THEN Extended(s2, inflatable) ELSE s2
        s4 == IF Inflation_is_replacable(f.inflation) THEN Extended(s3, replaceable)
              ELSE IF Inflation_is_burnable(f.inflation) THEN Extended(s3, burnable)
              ELSE s3
        s5 == IF f.reserves THEN Extended(s4, reservable) ELSE s4
    IN  [s5 EXCEPT !.iface.name = "RGB20"]

\* Iface::iface_id commits to the whole declaration: two interfaces have one
\* id exactly when they declare the same.
Iface_iface_id(i) == i

\* Rgb20::IFACE_ID, the constant the test iface_id_all pins to the id of
\* iface(Features::all()).
IFACE_ID == Iface_iface_id(Rgb20_iface(Features_all).iface)

\* The id of an interface that is not an RGB20 one.
ForeignId == Iface_iface_id(named_asset)

Rgb20_from_Accepting(id) == [status |-> "Ok", wrapped |-> id]

\* impl From<ContractIface> for Rgb20, by the iface_id of the view's interface
\* implementation; `wrapped` is the view handed in, which a panic does not
\* return.
Rgb20_from(id) ==
    IF id # IFACE_ID THEN [status |-> "Panic", wrapped |-> id]
    ELSE [status |-> "Ok", wrapped |-> id]

(***************************************************************************)
(* SpecIface: Rgb20::iface(features) composes the interface one `if` at a  *)
(* time; a contract view whose implementation carries the id of the result *)
(* (or a foreign id) is then wrapped as Rgb20.                             *)
(***************************************************************************)
InitIface ==
    /\ pc = "renaming"
    /\ overflowChecks = TRUE
    /\ ChangeUnused
    /\ OpsUnused
    /\ ViewUnused
    /\ debugAssertions = FALSE
    /\ features \in FeaturesSet
    /\ composed = [iface |-> Iface_expect_extended(named_asset, fungible),
                   extended |-> <<"NamedAsset", "FungibleAsset">>]
    /\ issue = NoIssue
    /\ log = <<>>

IfaceStep(from, to, next) ==
    /\ pc = from
    /\ pc' = to
    /\ composed' = next
    /\ UNCHANGED <<overflowChecks, changeVars, opsVars, viewVars, debugAssertions,
                   features, issue, log>>

ExtendRenameable ==
    /\ features.renaming
    /\ IfaceStep("renaming", "fixed", Extended(composed, renameable))

SkipRenameable ==
    /\ ~features.renaming
    /\ IfaceStep("renaming", "fixed", composed)

ExtendFixed ==
    /\ Inflation_is_fixed(features.inflation)
    /\ IfaceStep("fixed", "inflatable", Extended(composed, fixed))

SkipFixed ==
    /\ ~Inflation_is_fixed(features.inflation)
    /\ IfaceStep("fixed", "inflatable", composed)

ExtendInflatable ==
    /\ Inflation_is_inflatible(features.inflation)
    /\ IfaceStep("inflatable", "burn", Extended(composed, inflatable))

SkipInflatable ==
    /\ ~Inflation_is_inflatible(features.inflation)
    /\ IfaceStep("inflatable", "burn", composed)

ExtendReplaceable ==
    /\ Inflation_is_replacable(features.inflation)
    /\ IfaceStep("burn", "reserves", Extended(composed, replaceable))

ExtendBurnable ==
    /\ ~Inflation_is_replacable(features.inflation)
    /\ Inflation_is_burnable(features.inflation)
    /\ IfaceStep("burn", "reserves", Extended(composed, burnable))

SkipBurn ==
    /\ ~Inflation_is_replacable(features.inflation)
    /\ ~Inflation_is_burnable(features.inflation)
    /\ IfaceStep("burn", "reserves", composed)

ExtendReservable ==
    /\ features.reserves
    /\ IfaceStep("reserves", "name", Extended(composed, reservable))

SkipReservable ==
    /\ ~features.reserves
    /\ IfaceStep("reserves", "name", composed)

SetName ==
    IfaceStep("name", "built", [composed EXCEPT !.iface.name = "RGB20"])

\* Rgb20::from(view): the view implements the interface just built, or one
\* with a foreign id.
Wrap(id) ==
    /\ pc = "built"
    /\ pc' = "wrapped"
    /\ call' = [query |-> "from", name |-> "", filter |-> {}, iface_id |-> id]
    /\ result' = Rgb20_from(id)
    /\ UNCHANGED <<overflowChecks, issueVars, changeVars, opsVars, state, schema, iface,
                   work>>

NextIface ==
    \/ ExtendRenameable
    \/ SkipRenameable
    \/ ExtendFixed
    \/ SkipFixed
    \/ ExtendInflatable
    \/ SkipInflatable
    \/ ExtendReplaceable
    \/ ExtendBurnable
    \/ SkipBurn
    \/ ExtendReservable
    \/ SkipReservable
    \/ SetName
    \/ Wrap(Iface_iface_id(composed.iface))
    \/ Wrap(ForeignId)

SpecIface == InitIface /\ [][NextIface]_vars

(***************************************************************************)
(* PrimaryIssue (rgb20.rs): the genesis builder of an RGB20 contract.  The *)
(* ContractBuilder it drives is kept by what PrimaryIssue hands to it: the *)
(* supported layer 1, the asset tag, and the owned and global state added. *)
(***************************************************************************)
\* Amounts a caller allocates.
IssueAmounts == {0, 30, 70, AmountMax}

\* Beneficiaries: an outpoint, on Bitcoin or on Liquid.
Beneficiaries ==
    {[outpoint |-> 1, liquid |-> FALSE], [outpoint |-> 2, liquid |-> FALSE],
     [outpoint |-> 3, liquid |-> TRUE]}

\* The (beneficiary, amount) lists handed to allocate_all.
AllocationLists ==
    {<<>>} \cup {<<[beneficiary |-> b, amount |-> a]>> :
                    b \in {[outpoint |-> 1, liquid |-> FALSE]}, a \in IssueAmounts}
           \cup {<<[beneficiary |-> [outpoint |-> 1, liquid |-> FALSE], amount |-> a1],
                   [beneficiary |-> b2, amount |-> a2]>> :
                    a1 \in IssueAmounts, a2 \in {30, AmountMax},
                    b2 \in {[outpoint |-> 2, liquid |-> FALSE],
                            [outpoint |-> 3, liquid |-> TRUE]}}

\* ContractBuilder::testnet(..).add_global_state("spec", spec)
ContractBuilder_testnet ==
    [liquid |-> FALSE, asset_tag |-> FALSE, fungible |-> <<>>, global |-> <<"spec">>]

\* Amount::checked_add_assign: None, and the amount untouched, on overflow.
Amount_checked_add(a, b) ==
    IF a + b > AmountMax THEN [status |-> "None", val |-> a]
    ELSE [status |-> "Some", val |-> a + b]

\* ContractBuilder::add_fungible_state / add_owned_state_det: a seal on a
\* layer 1 the builder does not support is refused with InvalidLayer1.
ContractBuilder_add_owned_state(b, seal, amount) ==
    IF seal.liquid /\ ~b.liquid THEN [status |-> "InvalidLayer1", builder |-> b]
    ELSE [status |-> "Ok",
          builder |-> [b EXCEPT !.fungible = Append(@, [seal |-> seal, amount |-> amount]),
                                !.asset_tag = TRUE]]

\* PrimaryIssue::testnet_int; testnet_det then adds the asset tag and sets
\* the flag.
PrimaryIssue_testnet_int ==
    [builder |-> ContractBuilder_testnet, issued |-> 0, deterministic |-> FALSE]

PrimaryIssue_testnet_det ==
    [PrimaryIssue_testnet_int EXCEPT !.builder.asset_tag = TRUE, !.deterministic = TRUE]

PrimaryIssue_support_liquid_Resetting(me) ==
    [me EXCEPT !.builder.liquid = TRUE, !.deterministic = FALSE]

PrimaryIssue_support_liquid(me) == [me EXCEPT !.builder.liquid = TRUE]

\* The body allocate and allocate_det share after their assertion: the checked
\* addition to the running total, then the state added to the builder.
AllocateBody_Unchecked(me, seal, amount) ==
    LET r == ContractBuilder_add_owned_state(me.builder, seal, amount)
        sum == (me.issued + amount) % AmountModulus
    IN  IF r.status # "Ok"
        THEN [status |-> "NoLiquidSupport", me |-> [me EXCEPT !.issued = sum]]
        ELSE [status |-> "Ok", me |-> [me EXCEPT !.issued = sum, !.builder = r.builder]]

AllocateBody_Doubling(me, seal, amount) ==
    LET sum == Amount_checked_add(me.issued, amount)
        r == ContractBuilder_add_owned_state(me.builder, seal, amount)
    IN  IF sum.status = "None" THEN [status |-> "AmountOverflow", me |-> me]
        ELSE IF r.status # "Ok"
        THEN [status |-> "NoLiquidSupport", me |-> [me EXCEPT !.issued = sum.val]]
        ELSE [status |-> "Ok",
              me |-> [me EXCEPT !.issued = IF sum.val + amount > AmountMax THEN sum.val
                                           ELSE sum.val + amount,
                                !.builder = r.builder]]

AllocateBody(me, seal, amount) ==
    LET sum == Amount_checked_add(me.issued, amount)
        r == ContractBuilder_add_owned_state(me.builder, seal, amount)
    IN  IF sum.status = "None" THEN [status |-> "AmountOverflow", me |-> me]
        ELSE IF r.status # "Ok"
        THEN [status |-> "NoLiquidSupport", me |-> [me EXCEPT !.issued = sum.val]]
        ELSE [status |-> "Ok", me |-> [me EXCEPT !.issued = sum.val, !.builder = r.builder]]

\* debug_assert!(cond): panics in a build with debug assertions, is compiled
\* out otherwise.
DebugAssertFails(cond) == debugAssertions /\ ~cond

PrimaryIssue_allocate(me, beneficiary, amount) ==
    IF DebugAssertFails(~me.deterministic) THEN [status |-> "Panic", me |-> me]
    ELSE AllocateBody(me, [outpoint |-> beneficiary.outpoint, liquid |-> beneficiary.liquid,
                           blinding |-> "random"], amount)

RECURSIVE PrimaryIssue_allocate_all(_, _)
PrimaryIssue_allocate_all(me, allocs) ==
    IF allocs = <<>> THEN [status |-> "Ok", me |-> me]
    ELSE LET r == PrimaryIssue_allocate(me, Head(allocs).beneficiary, Head(allocs).amount)
         IN  IF r.status # "Ok" THEN r
             ELSE PrimaryIssue_allocate_all(r.me, Tail(allocs))

PrimaryIssue_allocate_det(me, beneficiary, seal_blinding, amount) ==
    IF DebugAssertFails(me.deterministic) THEN [status |-> "Panic", me |-> me]
    ELSE IF ~me.builder.asset_tag THEN [status |-> "Panic", me |-> me]
    ELSE AllocateBody(me, [outpoint |-> beneficiary.outpoint, liquid |-> beneficiary.liquid,
                           blinding |-> seal_blinding], amount)

\* PrimaryIssue::issue_contract_int: the running total goes into the genesis
\* as issuedSupply, next to the terms.
PrimaryIssue_issue_contract_int(me) ==
    [status |-> "Ok",
     contract |-> [issuedSupply |-> me.issued,
                   global |-> me.builder.global \o <<"issuedSupply", "terms">>,
                   assetOwner |-> me.builder.fungible]]

PrimaryIssue_issue_contract(me) ==
    IF DebugAssertFails(~me.deterministic) THEN [status |-> "Panic", contract |-> <<>>]
    ELSE PrimaryIssue_issue_contract_int(me)

PrimaryIssue_issue_contract_det(me) ==
    IF DebugAssertFails(me.deterministic) THEN [status |-> "Panic", contract |-> <<>>]
    ELSE PrimaryIssue_issue_contract_int(me)

(***************************************************************************)
(* SpecIssue: a PrimaryIssue is constructed, fed up to MaxIssueOps         *)
(* operations, each consuming it and returning it or an error, and issued. *)
(***************************************************************************)
InitIssue ==
    /\ pc = "new"
    /\ overflowChecks = TRUE
    /\ ChangeUnused
    /\ OpsUnused
    /\ ViewUnused
    /\ debugAssertions \in BOOLEAN
    /\ features = NoFeatures
    /\ composed = NoComposed
    /\ issue = NoIssue
    /\ log = <<>>

IssueFrame == UNCHANGED <<overflowChecks, changeVars, opsVars, state, schema, iface, work,
                          debugAssertions, features, composed>>

\* One log entry per call: the operation, whether the condition it asserts
\* held (TRUE when it asserts nothing), and the flag before and after it.
Logged(op, asserted, before, after) ==
    Append(log, [op |-> op, asserted |-> asserted, before |-> before, after |-> after])

\* allocate_all calls allocate once per item: with no item nothing is
\* asserted.
AllocateAllOp(allocs) == IF allocs = <<>> THEN "allocate_all (empty)" ELSE "allocate_all"

Construct(op, me) ==
    /\ pc = "new"
    /\ pc' = "building"
    /\ issue' = me
    /\ call' = [query |-> op, name |-> "", filter |-> {}]
    /\ result' = [status |-> "Ok"]
    /\ log' = Logged(op, TRUE, me.deterministic, me.deterministic)
    /\ IssueFrame

Testnet == Construct("testnet", PrimaryIssue_testnet_int)

TestnetWith == Construct("testnet_with", PrimaryIssue_testnet_int)

TestnetDet == Construct("testnet_det", PrimaryIssue_testnet_det)

\* An operation that takes self by value: on Ok the caller has the builder
\* back, otherwise the builder is gone; `issue` then keeps what was dropped.
Consume(op, args, asserted, r) ==
    /\ pc = "building"
    /\ Len(log) <= MaxIssueOps
    /\ pc' = IF r.status = "Ok" THEN "building"
             ELSE IF r.status = "Panic" THEN "panicked" ELSE "failed"
    /\ issue' = r.me
    /\ call' = [query |-> op, name |-> "", filter |-> {}, args |-> args, before |-> issue]
    /\ result' = [status |-> r.status]
    /\ log' = Logged(op, asserted, issue.deterministic, r.me.deterministic)
    /\ IssueFrame

SupportLiquid ==
    /\ ~issue.builder.liquid
    /\ Consume("support_liquid", <<>>, TRUE,
               [status |-> "Ok", me |-> PrimaryIssue_support_liquid(issue)])

AddTerms == Consume("add_terms", <<>>, TRUE, [status |-> "Ok", me |-> issue])

Allocate(beneficiary, amount) ==
    Consume("allocate", <<[beneficiary |-> beneficiary, amount |-> amount]>>,
            ~issue.deterministic, PrimaryIssue_allocate(issue, beneficiary, amount))

AllocateAll(allocs) ==
    Consume(AllocateAllOp(allocs), allocs, allocs = <<>> \/ ~issue.deterministic,
            PrimaryIssue_allocate_all(issue, allocs))

AllocateDet(beneficiary, seal_blinding, amount) ==
    Consume("allocate_det", <<[beneficiary |-> beneficiary, amount |-> amount]>>,
            issue.deterministic,
            PrimaryIssue_allocate_det(issue, beneficiary, seal_blinding, amount))

Issue(op, asserted, r) ==
    /\ pc = "building"
    /\ pc' = IF r.status = "Ok" THEN "issued" ELSE "panicked"
    /\ call' = [query |-> op, name |-> "", filter |-> {}, args |-> <<>>, before |-> issue]
    /\ result' = r
    /\ log' = Logged(op, asserted, issue.deterministic, issue.deterministic)
    /\ UNCHANGED issue
    /\ IssueFrame

IssueContract ==
    Issue("issue_contract", ~issue.deterministic, PrimaryIssue_issue_contract(issue))

IssueContractDet ==
    Issue("issue_contract_det", issue.deterministic, PrimaryIssue_issue_contract_det(issue))

NextIssue ==
    \/ Testnet
    \/ TestnetWith
    \/ TestnetDet
    \/ SupportLiquid
    \/ AddTerms
    \/ \E b \in Beneficiaries, a \in IssueAmounts : Allocate(b, a)
    \/ \E l \in AllocationLists : AllocateAll(l)
    \/ \E b \in Beneficiaries, a \in IssueAmounts : AllocateDet(b, 0, a)
    \/ IssueContract
    \/ IssueContractDet

SpecIssue == InitIssue /\ [][NextIssue]_vars

(***************************************************************************)
(* Ticker (std/src/stl/specs.rs): Confined<AsciiString, 1, 8> built from a *)
(* string.  A string is the sequence of its characters' code points.       *)
(***************************************************************************)
\* Confined<AsciiString, 1, 8>
TickerMinLen == 1
TickerMaxLen == 8

\* Code points of 'A', 'a' and of a character outside ASCII; and, for the
\* short strings, the neighbours of the uppercase range.
LongAlphabet == {65, 97, 233}
ShortAlphabet == {48, 64, 65, 90, 91, 97, 122, 233}

RECURSIVE StringsOver(_, _)
StringsOver(alphabet, len) ==
    IF len = 0 THEN {<<>>}
    ELSE {Append(s, c) : s \in StringsOver(alphabet, len - 1), c \in alphabet}

TickerStrings ==
    UNION {StringsOver(LongAlphabet, n) : n \in 0..MaxTickerInput}
        \cup StringsOver(ShortAlphabet, 1) \cup StringsOver(ShortAlphabet, 2)

u8_is_ascii(ch) == ch <= 127
AsciiChar_is_ascii_uppercase(ch) == ch >= 65 /\ ch <= 90

IsAscii(s) == \A i \in 1..Len(s) : u8_is_ascii(s[i])

\* AsciiString::from_ascii
AsciiString_from_ascii(s) ==
    IF IsAscii(s) THEN [status |-> "Ok", ascii |-> s]
    ELSE [status |-> "NonAsciiChar", ascii |-> <<>>]

\* Confined::try_from for the bounds of a Ticker.
Confined_try_from(ascii) ==
    IF Len(ascii) < TickerMinLen \/ Len(ascii) > TickerMaxLen
    THEN [status |-> "Confinement"] ELSE [status |-> "Ok"]

\* .find(|ch| !ch.is_ascii_uppercase()): the position of the first such
\* character, 0 when there is none.
FindNotUppercase(ascii) ==
    LET bad == {i \in 1..Len(ascii) : ~AsciiChar_is_ascii_uppercase(ascii[i])}
    IN  IF bad = {} THEN 0 ELSE CHOOSE i \in bad : \A j \in bad : i <= j

NoChar == 0

Ticker_try_from_ascii_LengthFirst(ascii) ==
    IF ascii = <<>> THEN [status |-> "Empty", ch |-> NoChar, ticker |-> <<>>]
    ELSE IF Confined_try_from(ascii).status # "Ok"
    THEN [status |-> "Confinement", ch |-> NoChar, ticker |-> <<>>]
    ELSE IF FindNotUppercase(ascii) # 0
    THEN [status |-> "InvalidChar", ch |-> ascii[FindNotUppercase(ascii)], ticker |-> <<>>]
    ELSE [status |-> "Ok", ch |-> NoChar, ticker |-> ascii]

\* impl TryFrom<AsciiString> for Ticker
Ticker_try_from_ascii(ascii) ==
    IF ascii = <<>> THEN [status |-> "Empty", ch |-> NoChar, ticker |-> <<>>]
    ELSE IF FindNotUppercase(ascii) # 0
    THEN [status |-> "InvalidChar", ch |-> ascii[FindNotUppercase(ascii)], ticker |-> <<>>]
    ELSE IF Confined_try_from(ascii).status # "Ok"
    THEN [status |-> "Confinement", ch |-> NoChar, ticker |-> <<>>]
    ELSE [status |-> "Ok", ch |-> NoChar, ticker |-> ascii]

\* impl FromStr for Ticker
Ticker_from_str(s) ==
    LET a == AsciiString_from_ascii(s)
    IN  IF a.status # "Ok" THEN [status |-> a.status, ch |-> NoChar, ticker |-> <<>>]
        ELSE Ticker_try_from_ascii(a.ascii)

\* impl TryFrom<String> for Ticker
Ticker_try_from_string(s) ==
    LET a == AsciiString_from_ascii(s)
    IN  IF a.status # "Ok" THEN [status |-> a.status, ch |-> NoChar, ticker |-> <<>>]
        ELSE Ticker_try_from_ascii(a.ascii)

(***************************************************************************)
(* SpecTicker: one of the three constructors is called on the string the  *)
(* caller holds.                                                           *)
(***************************************************************************)
InitTicker ==
    /\ pc = "idle"
    /\ overflowChecks = TRUE
    /\ ChangeUnused
    /\ OpsUnused
    /\ IssueUnused
    /\ state = [rights |-> <<>>, fungible |-> <<>>, data |-> <<>>, attach |-> <<>>,
                global |-> <<>>]
    /\ schema = <<>>
    /\ iface = NoIface
    /\ \E s \in TickerStrings : call = [query |-> "none", name |-> "", filter |-> {}, s |-> s]
    /\ result = NoResult
    /\ work = NoWork

Constructed(op, r) ==
    /\ pc = "idle"
    /\ pc' = "returned"
    /\ call' = [call EXCEPT !.query = op]
    /\ result' = r
    /\ UNCHANGED <<overflowChecks, issueVars, changeVars, opsVars, state, schema, iface,
                   work>>

FromStr == Constructed("from_str", Ticker_from_str(call.s))

TryFromString == Constructed("try_from_string", Ticker_try_from_string(call.s))

\* An AsciiString holds ASCII characters only.
TryFromAsciiString ==
    /\ IsAscii(call.s)
    /\ Constructed("try_from_ascii", Ticker_try_from_ascii(call.s))

NextTicker ==
    \/ FromStr
    \/ TryFromString
    \/ TryFromAsciiString

SpecTicker == InitTicker /\ [][NextTicker]_vars

(***************************************************************************)
(* Properties of the AmountChange fold (SpecChange).                       *)
(***************************************************************************)
\* The signed number an AmountChange denotes.
Value(c) == IF c.tag = "Dec" THEN 0 - c.val ELSE c.val

Folded == pc \in {"folding", "panicked"} /\ nEvents >= 1

\* C1: whatever the order of the events, the folded change is Inc(net) when
\* more was received than spent and Dec(-net) when more was spent, with
\* net = total received - total spent.  Stated for the nets the Amount domain
\* can represent.
C1_FoldEqualsNet ==
    LET net == totalReceived - totalSpent
    IN  (Folded /\ net <= AmountMax /\ 0 - net <= AmountMax) =>
            /\ net > 0 => change = Inc(net)
            /\ net < 0 => change = Dec(0 - net)

\* C2: the folded change is Zero exactly when the received total equals the
\* spent total, so Dec(0) and Inc(0) never occur.
C2_ZeroIffCancels ==
    Folded => /\ (change = Zero) <=> (totalReceived = totalSpent)
              /\ change # Dec(0)
              /\ change # Inc(0)

(***************************************************************************)
(* Properties of operation aggregation (SpecOps).                          *)
(***************************************************************************)
Running == pc \in {"spent", "received", "done"}

RECURSIVE SumAt(_, _)
\* Arithmetic sum of the amounts of the allocations of `seq` settled at w.
SumAt(seq, w) ==
    IF seq = <<>> THEN 0
    ELSE (IF Head(seq).witness = w THEN Head(seq).state ELSE 0) + SumAt(Tail(seq), w)

OpsAt(seq, w) == {seq[i].op : i \in {j \in DOMAIN seq : seq[j].witness = w}}

SettledIds(seq) == {seq[i].witness : i \in DOMAIN seq} \ {NoWitness}

IsSettled(alloc) == alloc.witness # NoWitness

\* C3: in the returned map the entry of settling transaction w carries the
\* net of the amounts received at w minus the amounts spent at w.
C3_NetPerWitness ==
    pc = "done" =>
        \A w \in DOMAIN ops :
            Value(ops[w].state_change) = SumAt(allocations, w) - SumAt(spent, w)

\* C4: the keys of the map are exactly the settling-transaction ids carried
\* by the allocations pulled, and the map is the one the settled allocations
\* alone produce: an unsettled allocation adds no key, no operation id and
\* no amount.
C4_UnsettledInvisible ==
    Running =>
        /\ DOMAIN ops = SettledIds(spent) \cup SettledIds(allocations)
        /\ ops = operations("AmountChange", SelectSeq(spent, IsSettled),
                         SelectSeq(allocations, IsSettled)).val

C4_Witness ==
    /\ pc = "done"
    /\ \E i \in DOMAIN spent : spent[i].witness = NoWitness /\ spent[i].state > 0
    /\ \E i \in DOMAIN allocations : allocations[i].witness # NoWitness
    /\ Cardinality(DOMAIN ops) = 1

\* C5: the entry of w lists as inputs exactly the operations of the spend
\* candidates settled at w and as opids exactly the operations of the
\* receive allocations settled at w; distinct settling ids never share an
\* entry.
C5_EntriesPerWitness ==
    Running =>
        /\ \A w \in DOMAIN ops :
              /\ ops[w].inputs = OpsAt(spent, w)
              /\ ops[w].opids = OpsAt(allocations, w)
        /\ Cardinality(DOMAIN ops) =
              Cardinality(SettledIds(spent) \cup SettledIds(allocations))

C5_Witness ==
    /\ pc = "done"
    /\ Len(spent) = 2
    /\ spent[1].witness = 1 /\ spent[2].witness = 2
    /\ spent[1].op = spent[2].op
    /\ Cardinality(DOMAIN ops) = 2

\* C6: at every step of the two loops and in the returned map, every entry
\* has a non-empty inputs set or a non-empty opids set.
C6_EntryNonEmpty ==
    \A w \in DOMAIN ops : ops[w].inputs # {} \/ ops[w].opids # {}

C6_Witness ==
    /\ pc = "received"
    /\ \E w \in DOMAIN ops : ops[w].inputs = {} /\ ops[w].opids # {}
    /\ \E w \in DOMAIN ops : ops[w].inputs # {} /\ ops[w].opids = {}

\* Some role holds two allocations of one operation settled at one witness.
Repeats(seq) ==
    \E i, j \in DOMAIN seq :
        /\ i < j
        /\ seq[i].op = seq[j].op
        /\ seq[i].witness = seq[j].witness
        /\ seq[i].witness # NoWitness

DuplicateSpent(alloc) ==
    /\ pc = "spent"
    /\ spent' = Append(spent, alloc)
    /\ alloc.witness \in DOMAIN ops
    /\ alloc.op \in ops[alloc.witness].inputs

\* The same for a receive allocation and the opids of its entry.
DuplicateReceived(alloc) ==
    /\ pc = "received"
    /\ allocations' = Append(allocations, alloc)
    /\ alloc.witness \in DOMAIN ops
    /\ alloc.op \in ops[alloc.witness].opids

ExtractQueries ==
    {"rights", "rights_all", "fungible", "fungible_all", "data", "data_all",
     "attachments", "attachments_all"}

OpsQueries == {"fungible_ops", "data_ops", "rights_ops", "attachment_ops"}

\* The store records a query reads.
RecordsOf(q) ==
    CASE q \in {"rights", "rights_all", "rights_ops"} -> state.rights
      [] q \in {"fungible", "fungible_all", "fungible_ops"} -> state.fungible
      [] q \in {"data", "data_all", "data_ops"} -> state.data
      [] q \in {"attachments", "attachments_all", "attachment_ops"} -> state.attach
      [] OTHER -> <<>>

\* The names the interface does not bind, for a global and for an assignment.
UnboundGlobals == {"assetOwner", "inflationAllowance", "unknown"}
UnboundAssignments == {"issuedSupply", "unknown"}

UnboundCall ==
    /\ pc = "returned"
    /\ \/ call.query = "global" /\ call.name \in UnboundGlobals
       \/ call.query \in ExtractQueries \cup OpsQueries
          /\ call.name \in UnboundAssignments

\* C8: a typed query asked for a name the interface does not bind returns
\* FieldNameUnknown with that very name, having filtered, decoded and
\* folded no record.
C8_UnknownFieldFirst ==
    UnboundCall =>
        /\ result = [status |-> "FieldNameUnknown", name |-> call.name,
                     items |-> <<>>, ops |-> <<>>]
        /\ work.filtered = 0
        /\ work.decoded = 0
        /\ work.folded = 0

C8_Witness ==
    /\ UnboundCall
    /\ call.query = "fungible_ops"
    /\ call.name = "issuedSupply"
    /\ Len(state.fungible) = 2
    /\ state.fungible[1].witness # NoWitness

\* The i-th smallest element of a set of indices.
Nth(indices, i) ==
    CHOOSE j \in indices : Cardinality({k \in indices : k < j}) = i - 1

\* The payload a typed view shows for a store record of the kind a query reads.
ShownState(q, st) ==
    CASE q \in {"rights", "rights_all"} -> st
      [] q \in {"fungible", "fungible_all"} -> st.value
      [] q \in {"data", "data_all"} -> st.value
      [] q \in {"attachments", "attachments_all"} -> st.file

BoundId(name) == IF name = "assetOwner" THEN 1 ELSE 2

\* C9: with a bound name and the always-true filter a typed extraction
\* returns exactly the store's records of its kind whose assignment type is
\* the field's: all of them, nothing else, once each, in store order, with
\* operation, type, seal, witness and payload as stored.
C9_ExactExtraction ==
    ( /\ pc = "returned"
      /\ call.query \in ExtractQueries
      /\ call.name \in {"assetOwner", "inflationAllowance"}
      /\ call.filter = AlwaysTrue ) =>
        LET records == RecordsOf(call.query)
            hits == {j \in DOMAIN records : records[j].ty = BoundId(call.name)}
        IN  /\ result.status = "Ok"
            /\ Len(result.items) = Cardinality(hits)
            /\ \A i \in DOMAIN result.items :
                  LET from == records[Nth(hits, i)]
                      item == result.items[i]
                  IN  /\ item.op = from.op
                      /\ item.ty = from.ty
                      /\ item.seal = from.seal
                      /\ item.witness = from.witness
                      /\ item.state = ShownState(call.query, from.state)

C9_Witness ==
    /\ pc = "returned"
    /\ call.query = "fungible_all"
    /\ call.name = "assetOwner"
    /\ call.filter = AlwaysTrue
    /\ Len(state.fungible) = 2
    /\ state.fungible[1].ty = 2
    /\ state.fungible[2].ty = 1
    /\ Len(result.items) = 1
    /\ result.items[1].state = 70

\* The store records of a kind whose output the filter of the call accepts.
Passing(records) == {j \in DOMAIN records : records[j].seal \in call.filter}

\* C10: allocations(filter) returns the filter-passing records of the four
\* kinds, rights first, then fungible, data and attachment, each kind in
\* store order and each record as the AllocatedState variant of its kind
\* with its payload; its length is the sum of the four counts.
C10_AllocationsChain ==
    (pc = "returned" /\ call.query = "allocations") =>
        LET r == Passing(state.rights)
            f == Passing(state.fungible)
            d == Passing(state.data)
            a == Passing(state.attach)
            nr == Cardinality(r)
            nf == Cardinality(f)
            nd == Cardinality(d)
            na == Cardinality(a)
            Same(item, from) ==
                /\ item.op = from.op
                /\ item.ty = from.ty
                /\ item.seal = from.seal
                /\ item.witness = from.witness
        IN  /\ result.status = "Ok"
            /\ Len(result.items) = nr + nf + nd + na
            /\ \A i \in 1..nr :
                  /\ Same(result.items[i], state.rights[Nth(r, i)])
                  /\ result.items[i].state = [tag |-> "Void", val |-> 0]
            /\ \A i \in 1..nf :
                  /\ Same(result.items[nr + i], state.fungible[Nth(f, i)])
                  /\ result.items[nr + i].state =
                        [tag |-> "Amount", val |-> state.fungible[Nth(f, i)].state.value]
            /\ \A i \in 1..nd :
                  /\ Same(result.items[nr + nf + i], state.data[Nth(d, i)])
                  /\ result.items[nr + nf + i].state =
                        [tag |-> "Data", val |-> state.data[Nth(d, i)].state.value]
            /\ \A i \in 1..na :
                  /\ Same(result.items[nr + nf + nd + i], state.attach[Nth(a, i)])
                  /\ result.items[nr + nf + nd + i].state =
                        [tag |-> "Attachment",
                         val |-> state.attach[Nth(a, i)].state.file]

C10_Witness ==
    /\ pc = "returned"
    /\ call.query = "allocations"
    /\ call.filter = {1}
    /\ Len(state.fungible) = 1
    /\ Len(state.data) = 1
    /\ state.fungible[1].ty # state.data[1].ty
    /\ Len(result.items) = 2
    /\ result.items[1].state = [tag |-> "Amount", val |-> 30]
    /\ result.items[2].state = [tag |-> "Data", val |-> 11]

FilterQueries == ExtractQueries \cup {"allocations", "outpoint_allocations"}

\* C11: a query that takes an outpoint filter returns no record whose output
\* the filter rejects, and outpoint_allocations(o) returns only records
\* bound to the outpoint o.
C11_NothingRejected ==
    (pc = "returned" /\ call.query \in FilterQueries) =>
        /\ \A i \in DOMAIN result.items : result.items[i].seal \in call.filter
        /\ call.query = "outpoint_allocations" =>
              \E o \in Seals :
                  /\ call.filter = {o}
                  /\ \A i \in DOMAIN result.items : result.items[i].seal = o

C11_Witness ==
    /\ pc = "returned"
    /\ call.query = "outpoint_allocations"
    /\ call.filter = {2}
    /\ Len(state.rights) = 1 /\ state.rights[1].seal = 1
    /\ Len(state.data) = 1 /\ state.data[1].seal = 2
    /\ Len(result.items) = 1
    /\ result.items[1].state.tag = "Data"

(***************************************************************************)
(* Properties of the Rgb20 wrapper (SpecRgb20).                            *)
(***************************************************************************)
\* The arithmetic sum of a sequence of numbers, unbounded.
ArithSum(seq) ==
    LET F[i \in 0..Len(seq)] == IF i = 0 THEN 0 ELSE F[i - 1] + seq[i]
    IN  F[Len(seq)]

\* The amounts of the store's fungible allocations under assetOwner whose
\* output the filter of the call accepts.
MatchingAmounts ==
    LET hits == SelectSeq(state.fungible,
                    LAMBDA r : r.ty = 1 /\ r.seal \in call.filter)
    IN  [i \in DOMAIN hits |-> hits[i].state.value]

BalanceReturned == pc = "returned" /\ call.query = "balance"

SupplyValues(t) ==
    IF t \in DOMAIN state.global
    THEN [i \in DOMAIN state.global[t] |-> state.global[t][i].val.uint]
    ELSE <<>>

Saturated(n) == IF n <= AmountMax THEN n ELSE AmountMax

SupplyReturned == pc = "returned" /\ call.query = "total_supply"

After(i) == IF i < Len(merges) THEN merges[i + 1].before ELSE change

\* C14: no merge call with an amount of the domain faults: none panics, and
\* none computes n + a, p - a or a - p beyond the domain, so each call moves
\* the signed value of the change by exactly its amount.
C14_MergesNeverFault ==
    /\ pc # "panicked"
    /\ \A i \in DOMAIN merges :
          Value(After(i)) =
              IF merges[i].op = "merge_spent"
              THEN Value(merges[i].before) - merges[i].arg
              ELSE Value(merges[i].before) + merges[i].arg

\* C15: merge_spent(a) and then merge_received(a) on a fresh change, Zero,
\* leave Zero, for every amount a.
C15_SpentThenReceivedCancels ==
    ( /\ Len(merges) = 2
      /\ merges[1].before = Zero
      /\ merges[1].op = "merge_spent"
      /\ merges[2].op = "merge_received"
      /\ merges[2].arg = merges[1].arg ) => change = Zero

C15_Witness ==
    /\ Len(merges) = 2
    /\ merges[1] = [op |-> "merge_spent", arg |-> AmountMax, before |-> Zero]
    /\ merges[2] = [op |-> "merge_received", arg |-> AmountMax,
                    before |-> Dec(AmountMax)]
    /\ change = Zero

\* The case table of merge_spent, over the integers.
SpentTable(c, a) ==
    CASE c.tag = "Dec" -> Dec(c.val + a)
      [] c.tag = "Zero" -> Dec(a)
      [] c.tag = "Inc" /\ a < c.val -> Inc(c.val - a)
      [] c.tag = "Inc" /\ a = c.val -> Zero
      [] c.tag = "Inc" /\ a > c.val -> Dec(a - c.val)

\* C16: every merge_spent(a) call turns the change into what the case table
\* gives: Dec(n) into Dec(n + a), Zero into Dec(a), Inc(p) into Inc(p - a),
\* Zero or Dec(a - p) as a is below, equal to or above p.
C16_SpentCaseTable ==
    \A i \in DOMAIN merges :
        merges[i].op = "merge_spent" =>
            After(i) = SpentTable(merges[i].before, merges[i].arg)

\* Dec and Inc change places; Zero, and a panic, stay.
Mirror(c) ==
    CASE c.tag = "Dec" -> Inc(c.val)
      [] c.tag = "Inc" -> Dec(c.val)
      [] OTHER -> c

\* C17: merge_received is the mirror of merge_spent.  Whatever a call did to
\* a change c with an amount a, the other merge does the mirrored thing to
\* the mirror of c with a, a panic included.
C17_MergesMirror ==
    \A i \in DOMAIN merges :
        LET c == merges[i].before
            a == merges[i].arg
        IN  IF merges[i].op = "merge_spent"
            THEN AmountChange_merge_received(Mirror(c), a) = Mirror(After(i))
            ELSE AmountChange_merge_spent(Mirror(c), a) = Mirror(After(i))

C17_Witness ==
    /\ Len(merges) = 2
    /\ merges[1] = [op |-> "merge_spent", arg |-> 50, before |-> Inc(10)]
    /\ merges[2] = [op |-> "merge_received", arg |-> 40, before |-> Dec(40)]
    /\ change = Zero

(***************************************************************************)
(* Placeholders of IfaceOp (SpecOps).                                      *)
(***************************************************************************)
\* C18: at every step of the aggregation and in the returned map, the
\* payers and the beneficiaries of every entry are empty.
C18_SealSetsEmpty ==
    \A w \in DOMAIN ops : ops[w].payers = {} /\ ops[w].beneficiaries = {}

C18_Witness ==
    /\ pc = "done"
    /\ Len(spent) = 1
    /\ Len(allocations) = 1
    /\ \E w \in DOMAIN ops : ops[w].inputs # {} /\ ops[w].opids # {}

(***************************************************************************)
(* Fatal conditions of global (SpecView).                                  *)
(***************************************************************************)
GlobalReturned == pc = "returned" /\ call.query = "global"

\* The view cannot decode the records of global type t: its schema or its
\* store does not define t, or a record is not of the schema's type.
Undecodable(t) ==
    \/ t \notin DOMAIN schema
    \/ t \notin DOMAIN state.global
    \/ \E i \in DOMAIN state.global[t] : state.global[t][i].sem # schema[t]

\* C19: global(name) with a bound name aborts when the schema or the store
\* lacks the bound type or a record does not decode: it yields no value, no
\* error value and no part of the records.  The only error value global
\* returns is FieldNameUnknown, and only for a name that is not bound.
C19_GlobalMismatchFatal ==
    GlobalReturned =>
        /\ result.status \in {"Ok", "Panic", "FieldNameUnknown"}
        /\ result.status = "FieldNameUnknown" => call.name \in UnboundGlobals
        /\ (call.name = "issuedSupply" /\ Undecodable(1)) =>
              result = [status |-> "Panic", name |-> "", items |-> <<>>,
                        ops |-> <<>>]
        /\ (call.name = "issuedSupply" /\ ~Undecodable(1)) =>
              /\ result.status = "Ok"
              /\ Len(result.items) = Len(state.global[1])

C19_Witness ==
    /\ GlobalReturned
    /\ call.name = "issuedSupply"
    /\ 1 \in DOMAIN schema
    /\ 1 \in DOMAIN state.global
    /\ Len(state.global[1]) = 2
    /\ state.global[1][1].sem = schema[1]
    /\ state.global[1][2].sem # schema[1]
    /\ result.status = "Panic"

(***************************************************************************)
(* Queries are read-only (SpecShared).                                     *)
(***************************************************************************)
\* Every thread that has returned holds what its query answers on the view,
\* and two threads that asked the same hold equal results.
SameAsAlone ==
    /\ \A t \in Threads :
          pc[t] = "returned" =>
              result[t] = Answer(call[t].query, call[t].name, call[t].filter)
    /\ \A t, u \in Threads :
          (pc[t] = "returned" /\ pc[u] = "returned" /\ call[t] = call[u]) =>
              result[t] = result[u]

HistoryReturned ==
    pc = "returned" /\ call.query = "transfer_history" /\ result.status = "Ok"

\* The amounts of the fungible allocations settled at w that are not under
\* assetOwner or whose output the filter of the call rejects.
UnmatchedAmountsAt(w) ==
    LET rest == SelectSeq(state.fungible,
                    LAMBDA r : r.witness = w /\ ~(r.ty = 1 /\ r.seal \in call.filter))
    IN  [i \in DOMAIN rest |-> rest[i].state.value]

\* C25: in every entry fungible_ops returns, the receiving operations are
\* among the spending ones, inputs is not empty, the net change is no
\* increase, and its magnitude is the sum of the amounts settled at that
\* transaction that do not match the field and the filter.
C25_ReceivedAlsoSpent ==
    HistoryReturned =>
        \A w \in DOMAIN result.ops :
            LET e == result.ops[w]
            IN  /\ e.opids \subseteq e.inputs
                /\ e.inputs # {}
                /\ ~(e.state_change.tag = "Inc" /\ e.state_change.val > 0)
                /\ e.state_change.val = ArithSum(UnmatchedAmountsAt(w))

(***************************************************************************)
(* The two implementations of AmountChange (SpecMerge).                    *)
(***************************************************************************)
\* C26: the guard-based AmountChange of rgb20.rs gives what the comparison-
\* based one of contract.rs gives, for from_spent and from_received of every
\* amount and for every merge call on every value, and never reaches an
\* unreachable!() arm.
C26_ImplementationsAgree ==
    /\ \A a \in Amounts :
          /\ Rgb20_AmountChange_from_spent(a) = AmountChange_from_spent(a)
          /\ Rgb20_AmountChange_from_received(a) = AmountChange_from_received(a)
    /\ \A i \in DOMAIN merges :
          LET other == IF merges[i].op = "merge_spent"
                       THEN Rgb20_AmountChange_merge_spent(merges[i].before,
                                                           merges[i].arg)
                       ELSE Rgb20_AmountChange_merge_received(merges[i].before,
                                                              merges[i].arg)
          IN  other = After(i) /\ other # Unreachable

C26_Witness ==
    /\ Len(merges) = 3
    /\ merges[1] = [op |-> "merge_spent", arg |-> 40, before |-> Inc(100)]
    /\ merges[2] = [op |-> "merge_spent", arg |-> 100, before |-> Inc(60)]
    /\ merges[3] = [op |-> "merge_received", arg |-> 40, before |-> Dec(40)]
    /\ change = Zero

(***************************************************************************)
(* Properties of the RGB20 interface family and its wrapper (SpecIface).   *)
(***************************************************************************)
Built == pc \in {"built", "wrapped"}

IsExtendedWith(name) == \E k \in 1..Len(composed.extended) : composed.extended[k] = name

HasBurnCapability ==
    /\ "burnedSupply" \in composed.iface.global_state
    /\ "burnRight" \in composed.iface.assignments
    /\ IsExtendedWith("BurnableAsset") \/ IsExtendedWith("ReplaceableAsset")

\* C28: the built interface has the burn capability (burnedSupply and
\* burnRight, through burnable() or replaceable()) exactly for the inflation
\* variants Burnable, InflatibleBurnable and Replaceable; it extends fixed()
\* exactly for Fixed, inflatable() exactly for Inflatible, InflatibleBurnable
\* and Replaceable, and replaceable() only after inflatable().
C28_BurnForEveryBurnableVariant ==
    Built =>
        /\ HasBurnCapability <=>
                features.inflation \in {"Burnable", "InflatibleBurnable", "Replaceable"}
        /\ IsExtendedWith("FixedAsset") <=> features.inflation = "Fixed"
        /\ IsExtendedWith("InflatableAsset") <=>
                features.inflation \in {"Inflatible", "InflatibleBurnable", "Replaceable"}
        /\ \A k \in 1..Len(composed.extended) :
                composed.extended[k] = "ReplaceableAsset" =>
                    \E j \in 1..(k - 1) : composed.extended[j] = "InflatableAsset"

\* The part of C28 the code keeps: everything but the burn capability of
\* InflatibleBurnable.
C28_AllButInflatibleBurnable ==
    (Built /\ features.inflation # "InflatibleBurnable") => C28_BurnForEveryBurnableVariant

Iface_is_consistent(i) ==
    /\ i.genesis.globals \subseteq i.global_state
    /\ i.genesis.assignments \subseteq i.assignments
    /\ \A n \in DOMAIN i.transitions :
            LET t == i.transitions[n]
            IN  /\ t.globals \subseteq i.global_state
                /\ t.inputs \subseteq i.assignments
                /\ t.assignments \subseteq i.assignments
                /\ t.default_assignment # "" => t.default_assignment \in i.assignments

AmountsOf(allocs) == [k \in 1..Len(allocs) |-> allocs[k].amount]

\* The running total before the i-th allocation of the call, had none
\* before it failed.
RunningBefore(i) == call.before.issued + ArithSum(SubSeq(AmountsOf(call.args), 1, i - 1))

OverflowsAt(i) == RunningBefore(i) + call.args[i].amount > AmountMax

RefusedAt(i) == call.args[i].beneficiary.liquid /\ ~call.before.builder.liquid

FailsAt(i) == OverflowsAt(i) \/ RefusedAt(i)

\* The allocations of the call that come before its first failing one.
DoneBeforeFailure ==
    {i \in 1..Len(call.args) : \A j \in 1..i : ~FailsAt(j)}

Allocated == call.query \in {"allocate", "allocate_all", "allocate_all (empty)",
                             "allocate_det"}
                /\ pc \in {"building", "failed"}

\* C23: allocate and allocate_det return AmountOverflow exactly when the
\* running total plus the amount exceeds the amount range, with nothing added
\* to the builder and the total as it was; the total never leaves the range;
\* allocate_all adds the allocations before the first failing one, and
\* returns the error of that one.
C23_OverflowDetectedFirst ==
    Allocated =>
        LET done == Cardinality(DoneBeforeFailure)
            n == Len(call.args)
        IN  /\ issue.issued \in 0..AmountMax
            /\ result.status = "Ok" <=> done = n
            /\ done < n =>
                    /\ result.status = "AmountOverflow" <=> OverflowsAt(done + 1)
                    /\ result.status = "NoLiquidSupport" <=> ~OverflowsAt(done + 1)
            /\ Len(issue.builder.fungible) = Len(call.before.builder.fungible) + done
            /\ \A i \in 1..done :
                    issue.builder.fungible[Len(call.before.builder.fungible) + i].amount
                        = call.args[i].amount
            /\ result.status \in {"Ok", "AmountOverflow"} =>
                    issue.issued = RunningBefore(done + 1)

\* allocate_all stopped at an overflowing second allocation, the first one
\* added.
C23_Witness ==
    /\ pc = "failed"
    /\ call.query = "allocate_all"
    /\ Len(call.args) = 2
    /\ result.status = "AmountOverflow"
    /\ Len(issue.builder.fungible) = 1
    /\ issue.issued = call.args[1].amount
    /\ issue.issued > 0

RandomOps == {"allocate", "allocate_all", "issue_contract"}
DetOps == {"allocate_det", "issue_contract_det"}

LogOps(set) == {k \in 2..Len(log) : log[k].op \in set}

AssertionsHeld == \A k \in 1..Len(log) : log[k].asserted

\* C24: the deterministic flag is set by the constructor (TRUE by testnet_det
\* only) and no operation changes it; a build with debug assertions panics
\* in an operation of the other mode; and when the condition every called
\* operation asserts held, the operations called are all of one mode.
C24_ModesNeverMix ==
    /\ [](Len(log) >= 1 =>
            /\ issue.deterministic = (log[1].op = "testnet_det")
            /\ \A k \in 1..Len(log) : log[k].before = log[k].after
            /\ \A k \in 2..Len(log) :
                    /\ log[k].op \in RandomOps /\ log[k].asserted => ~log[k].before
                    /\ log[k].op \in DetOps /\ log[k].asserted => log[k].before
            /\ (debugAssertions /\ ~log[Len(log)].asserted) => pc = "panicked"
            /\ AssertionsHeld => (LogOps(RandomOps) = {} \/ LogOps(DetOps) = {}))
    /\ [][pc # "new" => issue'.deterministic = issue.deterministic]_vars

C24_Witness ==
    /\ pc = "issued"
    /\ call.query = "issue_contract_det"
    /\ issue.deterministic
    /\ Len(log) = 4
    /\ log[2].op = "support_liquid"
    /\ log[3].op = "allocate_det"

TickerReturned == pc = "returned" /\ call.query \in {"from_str", "try_from_string", "try_from_ascii"}

ValidTicker(s) ==
    /\ IsAscii(s)
    /\ Len(s) >= 1 /\ Len(s) <= 8
    /\ \A i \in 1..Len(s) : s[i] \in 65..90

HasNotUppercase(s) == \E i \in 1..Len(s) : s[i] \notin 65..90

FirstNotUppercase(s) ==
    s[CHOOSE i \in 1..Len(s) : s[i] \notin 65..90 /\ \A j \in 1..(i - 1) : s[j] \in 65..90]

\* The three constructors agree on the string of the call wherever they can
\* be handed it.
ConstructorsAgree ==
    /\ Ticker_from_str(call.s) = Ticker_try_from_string(call.s)
    /\ IsAscii(call.s) => Ticker_try_from_ascii(call.s) = Ticker_from_str(call.s)
    /\ result.status = "Ok" <=> Ticker_from_str(call.s).status = "Ok"

\* C30 as stated: construction succeeds exactly for the ASCII strings of 1
\* to 8 uppercase letters, alike for the three constructors; the empty
\* string is rejected as Empty, and any string with a character that is not
\* an uppercase letter as InvalidChar naming the first such character,
\* whatever its length.
C30_NotUppercaseIsInvalidChar ==
    TickerReturned =>
        /\ result.status = "Ok" <=> ValidTicker(call.s)
        /\ ConstructorsAgree
        /\ call.s = <<>> => result.status = "Empty"
        /\ HasNotUppercase(call.s) =>
                result.status = "InvalidChar" /\ result.ch = FirstNotUppercase(call.s)

\* C30, amended: the same, with InvalidChar for the ASCII strings only; a
\* string with a character outside ASCII is rejected by the conversion to
\* AsciiString before any character is looked at, whatever else it holds.
C30_AsciiNotUppercaseIsInvalidChar ==
    TickerReturned =>
        /\ result.status = "Ok" <=> ValidTicker(call.s)
        /\ result.status = "Ok" => result.ticker = call.s
        /\ ConstructorsAgree
        /\ call.s = <<>> => result.status = "Empty"
        /\ (IsAscii(call.s) /\ HasNotUppercase(call.s)) =>
                result.status = "InvalidChar" /\ result.ch = FirstNotUppercase(call.s)
        /\ ~IsAscii(call.s) => result.status = "NonAsciiChar"
        /\ result.status = "Confinement" =>
                Len(call.s) > 8 /\ ~HasNotUppercase(call.s)

\* Nine characters, the last one lowercase: InvalidChar, not the length.
C30_Witness ==
    /\ pc = "returned"
    /\ call.query = "try_from_string"
    /\ Len(call.s) = 9
    /\ call.s[9] = 97
    /\ \A i \in 1..8 : call.s[i] = 65
    /\ result.status = "InvalidChar"
    /\ result.ch = 97

====
